---- MODULE Spec2Model ----
(***************************************************************************)
(* CaterBasePro: the estimate pricing engine (client_estimates/models.py)  *)
(* and the selection-replacement workflow of the estimate admin            *)
(* (client_estimates/admin.py).                                            *)
(*                                                                         *)
(* Numbers.  Python Decimals are exact here (28 digits of precision are    *)
(* never exceeded), so every Decimal is an integer count of a fixed unit:  *)
(*   money (2 decimal places)            : cents                           *)
(*   servings, markup, hours, quantity,                                    *)
(*   deposit percentage (2 places)       : hundredths                      *)
(* A product carries the sum of its factors' places; quantize(0.01) is     *)
(* Quantize(n, d): n counted in units of 1/(100*d), rounded to cents with  *)
(* the context's default rounding, ROUND_HALF_EVEN.                        *)
(* Text (meal names, category names, override values) is a sequence of     *)
(* one-character strings, so that strip(), lower(), "in" and Decimal(str)  *)
(* are computed and not assumed.                                           *)
(* A nullable field is <<>> (None) or <<v>>.                               *)
(***************************************************************************)
EXTENDS Integers, Sequences, FiniteSets, TLC

None == <<>>
Some(v) == <<v>>

\* Python truthiness of a nullable Decimal/int: None and zero are falsy.
Truthy(x) == x # None /\ x[1] # 0

Max(a, b) == IF a >= b THEN a ELSE b

\* Decimal.quantize(Decimal("0.01")) under ROUND_HALF_EVEN: n / d to the
\* nearest integer, ties to the even neighbour.
Quantize(n, d) ==
    LET q == n \div d
        r == n % d
    IN  IF 2 * r < d THEN q
        ELSE IF 2 * r > d THEN q + 1
        ELSE IF q % 2 = 0 THEN q ELSE q + 1

RECURSIVE Pow10(_)
Pow10(k) == IF k = 0 THEN 1 ELSE 10 * Pow10(k - 1)

RECURSIVE SumOver(_, _)
\* sum of f[x] over the finite set S
SumOver(S, f) ==
    IF S = {} THEN 0
    ELSE LET x == CHOOSE y \in S : TRUE IN f[x] + SumOver(S \ {x}, f)

(***************************************************************************)
(* Text                                                                    *)
(***************************************************************************)
Digits == {"0", "1", "2", "3", "4", "5", "6", "7", "8", "9"}

DigitVal(c) ==
    CASE c = "0" -> 0 [] c = "1" -> 1 [] c = "2" -> 2 [] c = "3" -> 3
      [] c = "4" -> 4 [] c = "5" -> 5 [] c = "6" -> 6 [] c = "7" -> 7
      [] c = "8" -> 8 [] c = "9" -> 9

\* str.lower() on the letters the catalog uses
LowerChar(c) ==
    CASE c = "K" -> "k" [] c = "I" -> "i" [] c = "D" -> "d"
      [] c = "M" -> "m" [] c = "S" -> "s"
      [] OTHER -> c

Lower(s) == [i \in 1..Len(s) |-> LowerChar(s[i])]

\* needle in hay (Python's substring test)
Contains(hay, needle) ==
    \E i \in 0..(Len(hay) - Len(needle)) :
        \A j \in 1..Len(needle) : hay[i + j] = needle[j]

\* the whitespace str.strip() removes, of the characters the inputs use
Whitespace == {" ", "\t", "\n", "\r"}

RECURSIVE LStrip(_)
LStrip(s) == IF s # <<>> /\ Head(s) \in Whitespace THEN LStrip(Tail(s)) ELSE s

RECURSIVE RStrip(_)
RStrip(s) ==
    IF s # <<>> /\ s[Len(s)] \in Whitespace THEN RStrip(SubSeq(s, 1, Len(s) - 1)) ELSE s

\* str.strip()
Strip(s) == RStrip(LStrip(s))

RECURSIVE DigitsValue(_)
DigitsValue(s) ==
    IF s = <<>> THEN 0
    ELSE 10 * DigitsValue(SubSeq(s, 1, Len(s) - 1)) + DigitVal(s[Len(s)])

\* Decimal(str(value)) for the plain notation digits[.digits]; anything else
\* raises (ok = FALSE).  The value is int / 10^scale.
ParseDecimal(s) ==
    LET dots == {i \in 1..Len(s) : s[i] = "."}
        bad  == \E i \in 1..Len(s) : s[i] \notin Digits \cup {"."}
        dot  == IF dots = {} THEN Len(s) + 1 ELSE CHOOSE i \in dots : TRUE
        ip   == SubSeq(s, 1, dot - 1)
        fp   == SubSeq(s, dot + 1, Len(s))
    IN  IF bad \/ Cardinality(dots) > 1 \/ Len(ip) + Len(fp) = 0
        THEN [ok |-> FALSE, int |-> 0, scale |-> 0]
        ELSE [ok |-> TRUE, int |-> DigitsValue(ip \o fp), scale |-> Len(fp)]

SignatureMenu ==
    <<"S", "i", "g", "n", "a", "t", "u", "r", "e", " ", "M", "e", "n", "u">>
ChefsSelection ==
    <<"C", "h", "e", "f", "'", "s", " ", "S", "e", "l", "e", "c", "t", "i", "o", "n">>
Kid == <<"k", "i", "d">>

(***************************************************************************)
(* Catalog of the tenant: MenuItem and ExtraItem rows (reference data).    *)
(***************************************************************************)
Mains == <<"M", "a", "i", "n", "s">>
KidsMenu == <<"K", "i", "d", "s", " ", "M", "e", "n", "u">>

MenuItemIds == {1, 2, 3}

\* MenuItem rows: cost_per_serving in cents, markup and
\* default_servings_per_person in hundredths, category name or None.
\*   1: 10.00 x 1.00 x 3.00 = 30.000000
\*   2:  2.50 x 0.50 x 1.01 =  1.262500  (a tie at the third decimal);
\*       with 0.20 servings 0.505000  (a tie at the second decimal)
\*   3:  5.00 x 1.00 x 2.00 = 10.000000  (kids category)
MenuItem ==
    [i \in MenuItemIds |->
        CASE i = 1 -> [category |-> Some(Mains), cost_per_serving |-> 1000,
                       markup |-> 300, default_servings_per_person |-> 100,
                       is_active |-> TRUE]
          [] i = 2 -> [category |-> None, cost_per_serving |-> 250,
                       markup |-> 101, default_servings_per_person |-> 50,
                       is_active |-> TRUE]
          [] i = 3 -> [category |-> Some(KidsMenu), cost_per_serving |-> 500,
                       markup |-> 200, default_servings_per_person |-> 100,
                       is_active |-> TRUE]]

ExtraItemIds == {1, 2}

\* ExtraItem rows: price in cents.
ExtraItem ==
    [x \in ExtraItemIds |->
        CASE x = 1 -> [charge_type |-> "PER_EVENT", price |-> 500]
          [] x = 2 -> [charge_type |-> "PER_PERSON", price |-> 333]]

(***************************************************************************)
(* Estimate helpers (models.py).  e is an Estimate instance, c its caterer *)
(* row, fcs and els the estimate's food-choice and extra-line rows.        *)
(***************************************************************************)
\* the hourly rate falling back to the field default, 50.00, and not to zero
_get_staff_hourly_rate_FieldDefault(e, c) ==
    IF Truthy(e.staff_hourly_rate) THEN e.staff_hourly_rate[1]
    ELSE IF c.staff_hourly_rate # 0 THEN c.staff_hourly_rate
    ELSE 5000

_get_staff_hourly_rate(e, c) ==
    IF Truthy(e.staff_hourly_rate) THEN e.staff_hourly_rate[1]
    ELSE IF c.staff_hourly_rate # 0 THEN c.staff_hourly_rate
    ELSE 0

_get_staff_tip_per_waiter(e, c) ==
    IF Truthy(e.staff_tip_per_waiter) THEN e.staff_tip_per_waiter[1]
    ELSE IF c.staff_tip_per_waiter # 0 THEN c.staff_tip_per_waiter
    ELSE 0

\* math.ceil(extra / 25) for extra >= 0
CeilDiv(a, b) == (a + b - 1) \div b

\* the tier rule with the overflow band rounded down instead of up
base_waiter_count_floor(e) ==
    LET guests == e.guest_count
    IN  IF guests = 0 THEN 0
        ELSE IF guests <= 50 THEN 2
        ELSE IF guests <= 75 THEN 3
        ELSE IF guests <= 100 THEN 4
        ELSE 4 + (Max(guests - 100, 0) \div 25)

base_waiter_count(e) ==
    LET guests == e.guest_count
    IN  IF guests = 0 THEN 0
        ELSE IF guests <= 50 THEN 2
        ELSE IF guests <= 75 THEN 3
        ELSE IF guests <= 100 THEN 4
        ELSE 4 + CeilDiv(Max(guests - 100, 0), 25)

total_waiter_count(e) == base_waiter_count(e) + e.extra_waiters

\* the plan with blank names dropped but the kept names not trimmed
_normalize_meal_plan_NoTrim(e) ==
    LET kept == SelectSeq(e.meal_plan, LAMBDA name : name # <<>> /\ Strip(name) # <<>>)
    IN  IF kept = <<>> THEN <<SignatureMenu>> ELSE kept

\* [name.strip() for name in (self.meal_plan or []) if name and name.strip()]
_normalize_meal_plan(e) ==
    LET kept == SelectSeq(e.meal_plan, LAMBDA name : name # <<>> /\ Strip(name) # <<>>)
        plan == [i \in 1..Len(kept) |-> Strip(kept[i])]
    IN  IF plan = <<>> THEN <<SignatureMenu>> ELSE plan

default_meal_name(e) == _normalize_meal_plan(e)[1]

get_meal_plan(e) == _normalize_meal_plan(e)

\* category name shown for a choice
CategoryName(ch) ==
    LET mi == MenuItem[ch.menu_item]
    IN  IF mi.category # None THEN mi.category[1] ELSE ChefsSelection

\* "kid" in ch.menu_item.category.name.lower()
IsKidsChoice(ch) ==
    LET mi == MenuItem[ch.menu_item]
    IN  mi.category # None /\ Contains(Lower(mi.category[1]), Kid)

\* one item's cost_per_serving * servings * markup, in units of 10^-6
ItemPrice(ch) ==
    LET mi == MenuItem[ch.menu_item]
        servings == IF Truthy(ch.servings_per_person)
                    THEN ch.servings_per_person[1]
                    ELSE mi.default_servings_per_person
    IN  (mi.cost_per_serving * servings) * mi.markup

\* meal_sections._price_for
_price_for(items) ==
    Quantize(SumOver(items, [ch \in items |-> ItemPrice(ch)]), 10000)

\* the override price with a value that does not parse taken as 0.00
OverridePrice_MalformedIsZero(overrides, meal_name) ==
    IF meal_name \notin DOMAIN overrides THEN None
    ELSE LET v == overrides[meal_name]
             d == ParseDecimal(v)
         IN  IF v = <<>> THEN None
             ELSE IF d.ok THEN Some(Quantize(d.int * 100, Pow10(d.scale)))
             ELSE Some(0)

\* overrides.get(meal_name), then the parse of lines 667-671: the override
\* price in cents, or None when there is none or it does not parse
OverridePrice(overrides, meal_name) ==
    IF meal_name \notin DOMAIN overrides THEN None
    ELSE LET v == overrides[meal_name]
             d == ParseDecimal(v)
         IN  IF v = <<>> THEN None
             ELSE IF d.ok THEN Some(Quantize(d.int * 100, Pow10(d.scale)))
             ELSE None

\* group the choices of a bucket by category name
Grouped(items, suffix) ==
    {[name |-> n \o suffix, choices |-> {ch \in items : CategoryName(ch) = n}] :
        n \in {CategoryName(ch) : ch \in items}}

KidsSuffix == <<" ", "(", "K", "i", "d", "s", ")">>

ZeroSection(name) ==
    [name |-> name, categories |-> {}, kids_categories |-> {},
     price_per_guest |-> 0, price_per_child |-> 0, total |-> 0, kids_total |-> 0]

\* a section whose manual override replaces the kids price as well
MealSection_OverrideKidsToo(e, fcs, meal_name) ==
    LET default_meal == get_meal_plan(e)[1]
        choices == {ch \in fcs : ch.included}
        meal_choices == {ch \in choices :
                            (IF ch.meal_name # <<>> THEN ch.meal_name
                             ELSE default_meal) = meal_name}
        adult_items == {ch \in meal_choices : ~IsKidsChoice(ch)}
        kids_items == {ch \in meal_choices : IsKidsChoice(ch)}
        ov == OverridePrice(e.manual_meal_totals, meal_name)
        price_pp == IF ov # None THEN ov[1] ELSE _price_for(adult_items)
        price_pp_kids == IF ov # None THEN ov[1] ELSE _price_for(kids_items)
    IN  [name |-> meal_name,
         categories |-> Grouped(adult_items, <<>>),
         kids_categories |-> Grouped(kids_items, KidsSuffix),
         price_per_guest |-> price_pp,
         price_per_child |-> price_pp_kids,
         total |-> Quantize(price_pp * e.guest_count, 1),
         kids_total |-> Quantize(price_pp_kids * e.guest_count_kids, 1)]

\* a section whose total is rounded from the unrounded price of its items
MealSection_TotalUnrounded(e, fcs, meal_name) ==
    LET default_meal == get_meal_plan(e)[1]
        choices == {ch \in fcs : ch.included}
        meal_choices == {ch \in choices :
                            (IF ch.meal_name # <<>> THEN ch.meal_name
                             ELSE default_meal) = meal_name}
        adult_items == {ch \in meal_choices : ~IsKidsChoice(ch)}
        kids_items == {ch \in meal_choices : IsKidsChoice(ch)}
        ov == OverridePrice(e.manual_meal_totals, meal_name)
        price_pp == IF ov # None THEN ov[1] ELSE _price_for(adult_items)
        price_pp_kids == _price_for(kids_items)
    IN  [name |-> meal_name,
         categories |-> Grouped(adult_items, <<>>),
         kids_categories |-> Grouped(kids_items, KidsSuffix),
         price_per_guest |-> price_pp,
         price_per_child |-> price_pp_kids,
         total |-> IF ov # None THEN Quantize(price_pp * e.guest_count, 1)
                   ELSE Quantize(SumOver(adult_items,
                                   [ch \in adult_items |-> ItemPrice(ch)])
                                 * e.guest_count, 10000),
         kids_total |-> Quantize(price_pp_kids * e.guest_count_kids, 1)]

MealSection(e, fcs, meal_name) ==
    LET default_meal == get_meal_plan(e)[1]
        choices == {ch \in fcs : ch.included}
        meal_choices == {ch \in choices :
                            (IF ch.meal_name # <<>> THEN ch.meal_name
                             ELSE default_meal) = meal_name}
        adult_items == {ch \in meal_choices : ~IsKidsChoice(ch)}
        kids_items == {ch \in meal_choices : IsKidsChoice(ch)}
        ov == OverridePrice(e.manual_meal_totals, meal_name)
        price_pp == IF ov # None THEN ov[1] ELSE _price_for(adult_items)
        price_pp_kids == _price_for(kids_items)
    IN  [name |-> meal_name,
         categories |-> Grouped(adult_items, <<>>),
         kids_categories |-> Grouped(kids_items, KidsSuffix),
         price_per_guest |-> price_pp,
         price_per_child |-> price_pp_kids,
         total |-> Quantize(price_pp * e.guest_count, 1),
         kids_total |-> Quantize(price_pp_kids * e.guest_count_kids, 1)]

meal_sections(e, fcs) ==
    LET plan == get_meal_plan(e)
    IN  IF ~e.pk THEN [i \in 1..Len(plan) |-> ZeroSection(plan[i])]
        ELSE [i \in 1..Len(plan) |-> MealSection(e, fcs, plan[i])]

\* the sum with each meal's price per child added to its price per guest
SumPricePerGuest_WithKids(sections) ==
    Quantize(SumOver(DOMAIN sections,
                     [i \in DOMAIN sections |->
                         sections[i].price_per_guest + sections[i].price_per_child]), 1)

\* sum(section["price_per_guest"] for section in sections), quantized
SumPricePerGuest(sections) ==
    Quantize(SumOver(DOMAIN sections,
                     [i \in DOMAIN sections |-> sections[i].price_per_guest]), 1)

calc_food_price_per_person(e, fcs) == SumPricePerGuest(meal_sections(e, fcs))

\* one extra line's contribution, in units of 10^-4
LinePrice(e, line) ==
    LET item == ExtraItem[line.extra_item]
        qty == IF line.quantity # 0 THEN line.quantity ELSE 100
    IN  IF line.override_price # None THEN line.override_price[1] * 100
        ELSE IF item.charge_type = "PER_PERSON"
             THEN (item.price * e.guest_count) * qty
             ELSE item.price * qty

calc_extras_total(e, els) ==
    Quantize(SumOver(els, [line \in els |-> LinePrice(e, line)]), 100)

\* the staff total with the pay and the tip rounded to cents separately
calc_staff_total_RoundedApart(e, c) ==
    IF e.is_ala_carte THEN 0
    ELSE LET waiters == total_waiter_count(e)
             staff_pay == (_get_staff_hourly_rate(e, c) * e.staff_hours) * waiters
             staff_tip == _get_staff_tip_per_waiter(e, c) * waiters
         IN  IF waiters = 0 THEN 0
             ELSE Quantize(staff_pay, 100) + staff_tip

calc_staff_total(e, c) ==
    IF e.is_ala_carte THEN 0
    ELSE LET waiters == total_waiter_count(e)
             hours == e.staff_hours
             rate == _get_staff_hourly_rate(e, c)
             tip == _get_staff_tip_per_waiter(e, c)
             staff_pay == (rate * hours) * waiters
             staff_tip == tip * waiters
         IN  IF waiters = 0 THEN 0
             ELSE Quantize(staff_pay + staff_tip * 100, 100)

\* the dishes total without the a-la-carte test
calc_dishes_total_NoAlaCarte(e, c) ==
    IF ~e.wants_real_dishes THEN 0
    ELSE LET per_person == IF Truthy(e.real_dishes_price_per_person)
                           THEN e.real_dishes_price_per_person[1]
                           ELSE c.real_dishes_price_per_person
             flat == IF Truthy(e.real_dishes_flat_fee)
                     THEN e.real_dishes_flat_fee[1]
                     ELSE c.real_dishes_flat_fee
         IN  Quantize(per_person * e.guest_count + flat, 1)

calc_dishes_total(e, c) ==
    IF e.is_ala_carte THEN 0
    ELSE IF ~e.wants_real_dishes THEN 0
    ELSE LET per_person == IF Truthy(e.real_dishes_price_per_person)
                           THEN e.real_dishes_price_per_person[1]
                           ELSE c.real_dishes_price_per_person
             flat == IF Truthy(e.real_dishes_flat_fee)
                     THEN e.real_dishes_flat_fee[1]
                     ELSE c.real_dishes_flat_fee
         IN  Quantize(per_person * e.guest_count + flat, 1)

ZeroTotals ==
    [food_price_per_person |-> 0, extras_total |-> 0, staff_total |-> 0,
     dishes_total |-> 0, grand_total |-> 0, deposit_amount |-> 0,
     balance_due |-> 0]

TotalFields == DOMAIN ZeroTotals

\* the derived fields with the children counted in the food total
Totals_KidsInFoodTotal(e, food_pp, extras, staff, dishes) ==
    LET food_total == food_pp * (e.guest_count + e.guest_count_kids)
        grand == food_total + extras + staff + dishes
        deposit == Quantize(grand * e.deposit_percentage, 10000)
        balance == grand - deposit
    IN  [food_price_per_person |-> food_pp, extras_total |-> extras,
         staff_total |-> staff, dishes_total |-> dishes,
         grand_total |-> Quantize(grand, 1),
         deposit_amount |-> deposit,
         balance_due |-> Quantize(balance, 1)]

\* the derived fields with the balance rounded from its own share of the
\* total instead of subtracted from it
Totals_BalanceRoundedApart(e, food_pp, extras, staff, dishes) ==
    LET food_total == food_pp * e.guest_count
        grand == food_total + extras + staff + dishes
        deposit == Quantize(grand * e.deposit_percentage, 10000)
        balance == Quantize(grand * (10000 - e.deposit_percentage), 10000)
    IN  [food_price_per_person |-> food_pp, extras_total |-> extras,
         staff_total |-> staff, dishes_total |-> dishes,
         grand_total |-> Quantize(grand, 1),
         deposit_amount |-> deposit,
         balance_due |-> balance]

\* the derived fields with the deposit taken from the grand total the
\* instance held before the call
Totals_DepositFromStoredGrand(e, food_pp, extras, staff, dishes) ==
    LET food_total == food_pp * e.guest_count
        grand == food_total + extras + staff + dishes
        deposit == Quantize(e.grand_total * e.deposit_percentage, 10000)
        balance == grand - deposit
    IN  [food_price_per_person |-> food_pp, extras_total |-> extras,
         staff_total |-> staff, dishes_total |-> dishes,
         grand_total |-> Quantize(grand, 1),
         deposit_amount |-> deposit,
         balance_due |-> Quantize(balance, 1)]

\* the derived fields with a deposit percentage of 0 replaced by 30.00
Totals_DepositDefaultWhenZero(e, food_pp, extras, staff, dishes) ==
    LET food_total == food_pp * e.guest_count
        grand == food_total + extras + staff + dishes
        rate == IF e.deposit_percentage = 0 THEN 3000 ELSE e.deposit_percentage
        deposit == Quantize(grand * rate, 10000)
        balance == grand - deposit
    IN  [food_price_per_person |-> food_pp, extras_total |-> extras,
         staff_total |-> staff, dishes_total |-> dishes,
         grand_total |-> Quantize(grand, 1),
         deposit_amount |-> deposit,
         balance_due |-> Quantize(balance, 1)]

\* recalc_totals, lines 589-603: the derived fields from the four parts
TotalsFromParts(e, food_pp, extras, staff, dishes) ==
    LET food_total == food_pp * e.guest_count
        grand == food_total + extras + staff + dishes
        \* grand * (deposit_percentage / 100.0), in units of 10^-6
        deposit == Quantize(grand * e.deposit_percentage, 10000)
        balance == grand - deposit
    IN  [food_price_per_person |-> food_pp, extras_total |-> extras,
         staff_total |-> staff, dishes_total |-> dishes,
         grand_total |-> Quantize(grand, 1),
         deposit_amount |-> deposit,
         balance_due |-> Quantize(balance, 1)]

\* the derived fields computed from the parts also when there is no pk
Totals_NoPkTest(e, c, fcs, els) ==
    TotalsFromParts(e, calc_food_price_per_person(e, fcs),
                    calc_extras_total(e, els), calc_staff_total(e, c),
                    calc_dishes_total(e, c))

\* the seven derived fields recalc_totals assigns
Totals(e, c, fcs, els) ==
    IF ~e.pk THEN ZeroTotals
    ELSE TotalsFromParts(e, calc_food_price_per_person(e, fcs),
                         calc_extras_total(e, els), calc_staff_total(e, c),
                         calc_dishes_total(e, c))

\* Estimate.recalc_totals: the instance with its derived fields assigned
recalc_totals(e, c, fcs, els) ==
    LET t == Totals(e, c, fcs, els)
    IN  [f \in DOMAIN e |-> IF f \in TotalFields THEN t[f] ELSE e[f]]

(***************************************************************************)
(* State: the database tables and the requests in flight.                  *)
(***************************************************************************)
VARIABLES
    caterer,       \* the CatererAccount row of the tenant
    estimates,     \* Estimate rows by id; pk = FALSE: no such row yet
    food_choices,  \* EstimateFoodChoice rows
    extra_lines,   \* EstimateExtraItem rows
    templates,     \* MenuTemplate rows: name -> the ids of its items
    requests,      \* the change-form submissions being handled
    lock,          \* row locks: 0 is the caterer row, id the estimate row;
                   \* the value is the holding request, 0 when free
    submitted,     \* form submissions received so far
    http,          \* the request TrialExpiryMiddleware handled last, and its answer
    printed,       \* the answer of the print view that ran last
    menu_item_rows,    \* MenuItem rows created through the estimate form, of
                   \* every tenant
    last           \* the operation that produced this state, on which estimate,
                   \* and how many times in a row it has now run (capped)

vars ==
    <<caterer, estimates, food_choices, extra_lines, templates, requests, lock,
      submitted, http, printed, menu_item_rows, last>>

MaxEstimates == 2
\* consecutive runs of one operation that are told apart
MaxRepeat == 2
EstimateIds == 1..MaxEstimates

Dinner == <<"D", "i", "n", "n", "e", "r">>
Lunch == <<"L", "u", "n", "c", "h">>

\* CatererAccount field defaults (models.py 84-99, 145-148)
DefaultCaterer ==
    [staff_hourly_rate |-> 5000, staff_tip_per_waiter |-> 8000,
     real_dishes_price_per_person |-> 1600, real_dishes_flat_fee |-> 40000,
     estimate_number_counter |-> 1000, active_extras |-> ExtraItemIds]

\* Estimate field defaults (models.py 340-470); pk = FALSE: not saved yet
NewEstimate ==
    [pk |-> FALSE, estimate_number |-> None,
     guest_count |-> 0, guest_count_kids |-> 0,
     wants_real_dishes |-> FALSE,
     real_dishes_price_per_person |-> None, real_dishes_flat_fee |-> None,
     staff_hours |-> 600, extra_waiters |-> 0,
     staff_hourly_rate |-> None, staff_tip_per_waiter |-> None,
     meal_plan |-> <<>>, manual_meal_totals |-> <<>>,
     deposit_percentage |-> 3000, is_ala_carte |-> FALSE,
     food_price_per_person |-> 0, extras_total |-> 0, staff_total |-> 0,
     dishes_total |-> 0, grand_total |-> 0, deposit_amount |-> 0,
     balance_due |-> 0]

\* A row's inserted_by stands for its auto-increment id: the serial number of
\* the submission that inserted it (0: before any submission), which tells a
\* re-inserted row from one that was never deleted.
FoodChoice(est, item, meal, servings) ==
    [estimate |-> est, menu_item |-> item, meal_name |-> meal,
     included |-> TRUE, servings_per_person |-> servings, inserted_by |-> 0]

ExtraLine(est, extra, qty, price) ==
    [estimate |-> est, extra_item |-> extra, quantity |-> qty,
     override_price |-> price, inserted_by |-> 0]

\* estimate.food_choices / estimate.extra_lines (the related managers)
FoodChoicesOf(id) == {ch \in food_choices : ch.estimate = id}
ExtraLinesOf(id) == {line \in extra_lines : line.estimate = id}

\* the stored derived fields of an estimate row
StoredTotals(e) == [f \in TotalFields |-> e[f]]

Ran(op, id) ==
    [op |-> op, estimate |-> id,
     count |-> IF last.op = op /\ last.estimate = id
               THEN (IF last.count < MaxRepeat THEN last.count + 1 ELSE MaxRepeat)
               ELSE 1]

NotRun == [op |-> "init", estimate |-> 0, count |-> 0]

\* no print view has run yet
NotPrinted ==
    [view |-> "none", estimate |-> 0, status |-> "none", staff_context |-> None,
     meal_total_amount |-> 0, grand_total |-> 0, per_person |-> 0,
     flat_deposit_amount |-> 0, flat_balance |-> 0]

(***************************************************************************)
(* URLs (caterbasepro/urls.py) and the requests the middleware sees.       *)
(***************************************************************************)
\* reverse(name): the path of a named URL
reverse(name) ==
    CASE name = "marketing_home" -> <<"/">>
      [] name = "start_trial" -> <<"/", "s", "t", "a", "r", "t", "-", "t", "r", "i", "a", "l", "/">>
      [] name = "trial_expired" -> <<"/", "t", "r", "i", "a", "l", "-", "e", "x", "p", "i", "r", "e", "d", "/">>
      [] name = "admin:login" -> <<"/", "a", "d", "m", "i", "n", "/", "l", "o", "g", "i", "n", "/">>
      [] name = "admin:logout" -> <<"/", "a", "d", "m", "i", "n", "/", "l", "o", "g", "o", "u", "t", "/">>
      [] name = "admin:index" -> <<"/", "a", "d", "m", "i", "n", "/">>
      [] name = "admin:client_estimates_estimate_changelist" -> <<"/", "a", "d", "m", "i", "n", "/", "c", "l", "i", "e", "n", "t", "_", "e", "s", "t", "i", "m", "a", "t", "e", "s", "/", "e", "s", "t", "i", "m", "a", "t", "e", "/">>
      [] name = "public_inquiry_no_slug" -> <<"/", "n", "e", "w", "-", "c", "l", "i", "e", "n", "t", "-", "i", "n", "q", "u", "i", "r", "y", "/">>

\* str.startswith
StartsWith(s, prefix) ==
    Len(prefix) <= Len(s) /\ SubSeq(s, 1, Len(prefix)) = prefix

\* no request handled yet
NoRequest ==
    [path |-> <<>>, now |-> 0, response |-> "none",
     user |-> [is_authenticated |-> FALSE, is_superuser |-> FALSE,
               caterer |-> None]]

\* the requests that can be handled at the same time
Requests == {1, 2}
\* form submissions in one behaviour
MaxSubmissions == 2

LockKeys == {0} \cup EstimateIds
NoLocks == [k \in LockKeys |-> 0]
NoTemplates == [n \in {} |-> {}]

\* the writes of a request's transaction that are not committed yet:
\* the caterer's counter, the estimate row, the estimate's food-choice and
\* extra-line rows (None: not written), and the templates written
NoWrites ==
    [counter |-> None, estimate |-> None, food |-> None, extras |-> None,
     templates |-> NoTemplates]

\* the POST data of the estimate change form (EstimateAdminForm):
\*   checked : the include_item_{id}_meal_{idx} boxes that are on, each with
\*             its servings_item_{id}_meal_{idx} value (None: blank)
\*   extras  : the include_extra_{id} boxes that are on, each with its
\*             quantity_extra_{id} and override_extra_{id} values
\*   manual_meal_totals_json : None (blank), or the text as json.loads
\*             takes it: ok = FALSE if it is not JSON, else the object
BlankForm ==
    [guest_count |-> 0, meal_plan_input |-> <<>>,
     manual_meal_totals_json |-> None, checked |-> {}, use_template |-> None,
     save_as_template |-> "", extras |-> {}]

\* a request: where its handler stands (pc), the estimate it is about, the
\* serial number of its submission, whether another submission for the same
\* estimate was in flight with it, the instance and bound form it holds, the
\* counter of the caterer instance it loaded, and its open transaction
Idle ==
    [pc |-> "idle", target |-> 0, serial |-> 0, overlap |-> FALSE,
     obj |-> NewEstimate, form |-> BlankForm, menu_items |-> {},
     extra_items |-> {}, counter |-> 0, tx |-> NoWrites]

(***************************************************************************)
(* Estimate.save() on an instance loaded from its row (as response_change  *)
(* does): recalc_totals, then write the row.                               *)
(***************************************************************************)
EstimateSave(id) ==
    /\ estimates[id].pk
    /\ estimates' = [estimates EXCEPT
           ![id] = recalc_totals(@, caterer, FoodChoicesOf(id), ExtraLinesOf(id))]
    /\ last' = Ran("save", id)
    /\ UNCHANGED <<http, printed, menu_item_rows, caterer, food_choices, extra_lines, templates, requests,
                   lock, submitted>>

(***************************************************************************)
(* Inputs of the pricing engine: every combination of the sets below.      *)
(***************************************************************************)
GuestCounts == {0, 1, 3}
KidsCounts == {0, 2}
\* 12.50 % of a total ending in 4 cents is a tie at the third decimal
DepositPercentages == {0, 1250, 3000, 10000}

\* (hours, extra waiters, hourly-rate override, tip override)
StaffConfigs ==
    {<<600, 0, None, None>>, <<125, 1, Some(3333), Some(0)>>,
     <<0, 0, Some(0), Some(1050)>>, <<250, 1, None, Some(995)>>,
     <<125, 1, Some(3330), Some(995)>>}

\* (wants_real_dishes, per-person override, flat-fee override)
DishesConfigs ==
    {<<FALSE, Some(1650), Some(25000)>>, <<TRUE, None, None>>,
     <<TRUE, Some(0), Some(12345)>>}

CatererConfigs ==
    {DefaultCaterer,
     [DefaultCaterer EXCEPT !.staff_hourly_rate = 0, !.staff_tip_per_waiter = 0,
         !.real_dishes_price_per_person = 0, !.real_dishes_flat_fee = 0]}

Override(name, text) == [n \in {name} |-> text]

\* (meal plan, manual per-meal overrides, food-choice rows of estimate 1).
\* Rows written before the meal_name column existed have a blank meal name
\* and no servings override.
FoodConfigs ==
    {<<<<>>, <<>>, {}>>,
     <<<<>>, <<>>, {FoodChoice(1, 1, <<>>, None), FoodChoice(1, 3, <<>>, Some(150))}>>,
     <<<<Dinner>>, <<>>, {FoodChoice(1, 1, Dinner, Some(100)), FoodChoice(1, 2, Dinner, Some(50))}>>,
     <<<<Dinner>>, Override(Dinner, <<"3", "0">>),
       {FoodChoice(1, 1, Dinner, Some(50)), FoodChoice(1, 3, Dinner, Some(100))}>>,
     <<<<Dinner>>, Override(Dinner, <<"a", "b", "c">>),
       {FoodChoice(1, 2, Dinner, Some(50)), FoodChoice(1, 3, Dinner, Some(100))}>>,
     <<<<Dinner, Lunch>>, Override(Lunch, <<"1", "2", ".", "3", "4", "5">>),
       {FoodChoice(1, 1, Dinner, Some(100)), FoodChoice(1, 2, Lunch, Some(50)),
        FoodChoice(1, 3, Lunch, Some(100))}>>,
     <<<<Dinner, Lunch>>, Override(Dinner, <<>>),
       {FoodChoice(1, 2, Dinner, Some(0)), FoodChoice(1, 2, Lunch, Some(150)),
        FoodChoice(1, 3, <<>>, None)}>>,
     <<<<Dinner, <<" ">>, Lunch>>, Override(Lunch, <<"0">>),
       {FoodChoice(1, 1, Lunch, Some(100)), FoodChoice(1, 3, Dinner, Some(100))}>>,
     <<<<Dinner, Lunch>>,
       Override(Dinner, <<"1", ".", "2", ".", "3">>) @@ Override(Lunch, <<"1", "2", "a">>),
       {FoodChoice(1, 1, Dinner, Some(100)), FoodChoice(1, 2, Lunch, Some(50)),
        FoodChoice(1, 3, Lunch, Some(100))}>>,
     <<<<Dinner>>, <<>>,
       {FoodChoice(1, 1, Dinner, None), FoodChoice(1, 2, Dinner, Some(20))}>>}

\* extra-line rows of estimate 1
ExtraConfigs ==
    {{}, {ExtraLine(1, 1, 100, None)}, {ExtraLine(1, 2, 150, None)},
     {ExtraLine(1, 1, 250, Some(12345)), ExtraLine(1, 2, 100, None)}}

Configured(g, k, dep, ala, st, di, fo) ==
    [NewEstimate EXCEPT
        !.pk = TRUE, !.estimate_number = Some(1000),
        !.guest_count = g, !.guest_count_kids = k,
        !.deposit_percentage = dep, !.is_ala_carte = ala,
        !.staff_hours = st[1], !.extra_waiters = st[2],
        !.staff_hourly_rate = st[3], !.staff_tip_per_waiter = st[4],
        !.wants_real_dishes = di[1],
        !.real_dishes_price_per_person = di[2], !.real_dishes_flat_fee = di[3],
        !.meal_plan = fo[1], !.manual_meal_totals = fo[2]]

InitTotals ==
    /\ caterer \in CatererConfigs
    /\ \E g \in GuestCounts, k \in KidsCounts, dep \in DepositPercentages,
          ala \in BOOLEAN, st \in StaffConfigs, di \in DishesConfigs,
          fo \in FoodConfigs :
          /\ estimates = [id \in EstimateIds |->
                 IF id = 1 THEN Configured(g, k, dep, ala, st, di, fo)
                 ELSE NewEstimate]
          /\ food_choices = fo[3]
    /\ extra_lines \in ExtraConfigs
    /\ templates = NoTemplates
    /\ requests = [r \in Requests |-> Idle]
    /\ lock = NoLocks
    /\ submitted = 0
    /\ http = NoRequest
    /\ printed = NotPrinted
    /\ menu_item_rows = {}
    /\ last = NotRun

NextTotals == \E id \in EstimateIds : EstimateSave(id)

SpecTotals == InitTotals /\ [][NextTotals]_vars

(***************************************************************************)
(* The waiter-tier rule over a range of guest counts: staff with no hourly *)
(* pay and a tip of 1.00 per waiter, so that the staff total counts the    *)
(* waiters.                                                                *)
(***************************************************************************)
MaxGuests == 130
MaxExtraWaiters == 2

InitWaiters ==
    /\ caterer = [DefaultCaterer EXCEPT !.staff_hourly_rate = 0]
    /\ \E g \in 0..MaxGuests, w \in 0..MaxExtraWaiters :
          estimates = [id \in EstimateIds |->
              IF id = 1
              THEN [NewEstimate EXCEPT !.pk = TRUE, !.estimate_number = Some(1000),
                       !.guest_count = g, !.extra_waiters = w,
                       !.staff_tip_per_waiter = Some(100)]
              ELSE NewEstimate]
    /\ food_choices = {}
    /\ extra_lines = {}
    /\ templates = NoTemplates
    /\ requests = [r \in Requests |-> Idle]
    /\ lock = NoLocks
    /\ submitted = 0
    /\ http = NoRequest
    /\ printed = NotPrinted
    /\ menu_item_rows = {}
    /\ last = NotRun

SpecWaiters == InitWaiters /\ [][NextTotals]_vars

(***************************************************************************)
(* The estimate change form (admin.py).  A submission is one POST handled  *)
(* by _changeform_view; the admin runs the handler in one transaction:     *)
(* its writes are seen by others at Commit, a row it has written stays     *)
(* locked until then, and an exception rolls all of them back.             *)
(***************************************************************************)
ActiveMenuItems == {i \in MenuItemIds : MenuItem[i].is_active}

RECURSIVE SplitLines(_)
\* str(raw).replace(",", "\n").splitlines(): the pieces between line breaks.
\* A "\r\n" pair gives an empty piece here where Python gives none;
\* parse_meal_plan drops empty pieces.
SplitLines(s) ==
    LET breaks == {i \in 1..Len(s) : s[i] \in {",", "\n", "\r"}}
    IN  IF breaks = {} THEN (IF s = <<>> THEN <<>> ELSE <<s>>)
        ELSE LET i == CHOOSE k \in breaks : \A m \in breaks : k <= m
             IN  <<SubSeq(s, 1, i - 1)>> \o SplitLines(SubSeq(s, i + 1, Len(s)))

parse_meal_plan(raw_value) ==
    IF raw_value = <<>> THEN <<>>
    ELSE LET lines == SplitLines(raw_value)
             names == [i \in 1..Len(lines) |-> Strip(lines[i])]
         IN  SelectSeq(names, LAMBDA name : name # <<>>)

\* json.loads(overrides_raw) if overrides_raw else {}, {} on JSONDecodeError
json_loads_or_empty(field) ==
    IF field = None THEN <<>>
    ELSE IF field[1].ok THEN field[1].value
    ELSE <<>>

\* EstimateAdminForm.__init__: the meals the item fields are built for
FormMealNames(data, instance) ==
    IF data.meal_plan_input # <<>> THEN parse_meal_plan(data.meal_plan_input)
    ELSE IF instance.meal_plan # <<>> THEN get_meal_plan(instance)
    ELSE <<SignatureMenu>>

Checked(item, idx, servings) ==
    [item |-> item, idx |-> idx, servings |-> servings]

Included(extra, quantity, override_price) ==
    [extra |-> extra, quantity |-> quantity, override_price |-> override_price]

JsonObject(value) == Some([ok |-> TRUE, value |-> value])
NotJson == Some([ok |-> FALSE, value |-> <<>>])

\* the submissions tried
Forms ==
    {[BlankForm EXCEPT !.guest_count = 2],
     [BlankForm EXCEPT !.guest_count = 3, !.meal_plan_input = Dinner,
         !.checked = {Checked(1, 0, None)},
         !.extras = {Included(1, Some(100), None)}],
     [BlankForm EXCEPT !.guest_count = 2,
         !.meal_plan_input = Dinner \o <<"\n">> \o Lunch,
         !.manual_meal_totals_json = JsonObject(Override(Lunch, <<"3", "0">>)),
         !.checked = {Checked(1, 0, Some(150)), Checked(2, 1, Some(0)),
                      Checked(3, 1, None)},
         !.extras = {Included(1, Some(250), Some(12345)),
                     Included(2, Some(0), None)}],
     [BlankForm EXCEPT !.guest_count = 2,
         !.meal_plan_input = Dinner \o <<",", " ">> \o Dinner,
         !.checked = {Checked(1, 0, None), Checked(1, 1, None)}],
     [BlankForm EXCEPT !.guest_count = 3,
         !.meal_plan_input = <<" ">> \o Dinner \o <<" ", ",">>,
         !.checked = {Checked(1, 0, None), Checked(3, 0, None)},
         !.save_as_template = "Buffet",
         !.extras = {Included(2, None, None)}],
     [BlankForm EXCEPT !.guest_count = 3,
         !.meal_plan_input = Lunch \o <<"\r", "\n">> \o Dinner,
         !.use_template = Some("Buffet")],
     [BlankForm EXCEPT !.guest_count = 2, !.meal_plan_input = Dinner,
         !.manual_meal_totals_json = NotJson,
         !.checked = {Checked(2, 0, None)}],
     [BlankForm EXCEPT !.guest_count = 2,
         !.meal_plan_input = Dinner \o <<"\n">> \o Dinner,
         !.checked = {Checked(1, 0, None), Checked(2, 1, None)}]}

InFlight(r) == requests[r].pc \notin {"idle", "done", "failed"}

\* the rows a request reads: its own uncommitted writes over the tables
TxFoodChoices(r) ==
    IF requests[r].tx.food # None THEN requests[r].tx.food[1]
    ELSE FoodChoicesOf(requests[r].target)

TxExtraLines(r) ==
    IF requests[r].tx.extras # None THEN requests[r].tx.extras[1]
    ELSE ExtraLinesOf(requests[r].target)

TxTemplates(r) ==
    LET written == requests[r].tx.templates
    IN  [n \in DOMAIN templates \cup DOMAIN written |->
            IF n \in DOMAIN written THEN written[n] ELSE templates[n]]

\* an exception leaves the handler: the transaction is rolled back and its
\* locks are released
Rollback(r) ==
    /\ requests' = [requests EXCEPT ![r] = [@ EXCEPT !.pc = "failed",
                                               !.tx = NoWrites]]
    /\ lock' = [k \in LockKeys |-> IF lock[k] = r THEN 0 ELSE lock[k]]

\* _changeform_view up to the call of save_model: the object is loaded (or
\* is a new one), the form is bound to the POST data and validated, and
\* save_form puts the cleaned values on the instance.  The form has item
\* fields for the caterer's active menu items and the form's meals, extra
\* fields for the caterer's active extra items, and accepts a template of
\* the caterer.
ChangeformPost(r, target, data) ==
    LET add == ~estimates[target].pk
        instance == IF add THEN NewEstimate ELSE estimates[target]
        meal_names == FormMealNames(data, instance)
        others == {o \in Requests \ {r} :
                      InFlight(o) /\ requests[o].target = target}
        free == {id \in EstimateIds :
                    /\ ~estimates[id].pk
                    /\ \A o \in Requests : InFlight(o) => requests[o].target # id}
    IN  /\ ~InFlight(r)
        /\ submitted < MaxSubmissions
        /\ add => (target \in free /\ \A id \in free : target <= id)
        /\ \A c \in data.checked :
              c.item \in ActiveMenuItems /\ c.idx < Len(meal_names)
        /\ \A x \in data.extras : x.extra \in caterer.active_extras
        /\ data.use_template # None => data.use_template[1] \in DOMAIN templates
        /\ submitted' = submitted + 1
        /\ requests' = [o \in Requests |->
              IF o = r
              THEN [pc |-> "bound", target |-> target, serial |-> submitted + 1,
                    overlap |-> others # {},
                    obj |-> [instance EXCEPT !.guest_count = data.guest_count],
                    form |-> data, menu_items |-> ActiveMenuItems,
                    extra_items |-> caterer.active_extras,
                    counter |-> caterer.estimate_number_counter,
                    tx |-> NoWrites]
              ELSE IF o \in others THEN [requests[o] EXCEPT !.overlap = TRUE]
              ELSE requests[o]]
        /\ UNCHANGED <<http, printed, menu_item_rows, caterer, estimates, food_choices, extra_lines, templates,
                       lock, last>>

\* the number assignment with the counter written back as it was read
AssignNumberAndPlan_NoIncrement(r) ==
    LET q == requests[r]
        needs == ~q.obj.pk \/ ~Truthy(q.obj.estimate_number)
        counter == IF q.counter # 0 THEN q.counter ELSE 1000
        parsed == parse_meal_plan(Strip(q.form.meal_plan_input))
        meal_names == IF parsed = <<>> THEN <<SignatureMenu>> ELSE parsed
        obj == [q.obj EXCEPT
                   !.estimate_number = IF needs THEN Some(counter) ELSE @,
                   !.meal_plan = meal_names,
                   !.manual_meal_totals =
                       json_loads_or_empty(q.form.manual_meal_totals_json)]
    IN  /\ q.pc = "bound"
        /\ needs => lock[0] \in {0, r}
        /\ lock' = IF needs THEN [lock EXCEPT ![0] = r] ELSE lock
        /\ requests' = [requests EXCEPT ![r] =
              [q EXCEPT !.pc = "numbered", !.obj = obj,
                        !.tx.counter = IF needs THEN Some(counter) ELSE @]]
        /\ UNCHANGED <<http, printed, menu_item_rows, caterer, estimates, food_choices, extra_lines, templates,
                       submitted, last>>

\* save_model, lines 863-879: a new estimate (or one without a number) takes
\* the counter of the caterer instance the request loaded and writes the
\* counter back incremented; the meal plan and the manual totals are put on
\* the instance.
AssignNumberAndPlan(r) ==
    LET q == requests[r]
        needs == ~q.obj.pk \/ ~Truthy(q.obj.estimate_number)
        counter == IF q.counter # 0 THEN q.counter ELSE 1000
        parsed == parse_meal_plan(Strip(q.form.meal_plan_input))
        meal_names == IF parsed = <<>> THEN <<SignatureMenu>> ELSE parsed
        obj == [q.obj EXCEPT
                   !.estimate_number = IF needs THEN Some(counter) ELSE @,
                   !.meal_plan = meal_names,
                   !.manual_meal_totals =
                       json_loads_or_empty(q.form.manual_meal_totals_json)]
    IN  /\ q.pc = "bound"
        /\ needs => lock[0] \in {0, r}
        /\ lock' = IF needs THEN [lock EXCEPT ![0] = r] ELSE lock
        /\ requests' = [requests EXCEPT ![r] =
              [q EXCEPT !.pc = "numbered", !.obj = obj,
                        !.tx.counter = IF needs THEN Some(counter + 1) ELSE @]]
        /\ UNCHANGED <<http, printed, menu_item_rows, caterer, estimates, food_choices, extra_lines, templates,
                       submitted, last>>

\* Estimate.save() on the request's instance: recalc_totals from the rows
\* the request sees, then the row is written.  unique_together (caterer,
\* estimate_number) raises IntegrityError on a number another row has.
SaveInstance(r, then) ==
    \E saved \in {[recalc_totals(requests[r].obj, caterer, TxFoodChoices(r),
                                 TxExtraLines(r)) EXCEPT !.pk = TRUE]} :
        LET q == requests[r]
            clash == \E id \in EstimateIds \ {q.target} :
                        /\ estimates[id].pk
                        /\ estimates[id].estimate_number = saved.estimate_number
        IN  /\ lock[q.target] \in {0, r}
            /\ IF clash THEN Rollback(r)
               ELSE /\ lock' = [lock EXCEPT ![q.target] = r]
                    /\ requests' = [requests EXCEPT ![r] =
                          [q EXCEPT !.pc = then, !.obj = saved,
                                    !.tx.estimate = Some(saved)]]
            /\ UNCHANGED <<http, printed, menu_item_rows, caterer, estimates, food_choices, extra_lines,
                           templates, submitted, last>>

\* save_model, line 881: super().save_model() is obj.save()
SuperSaveModel(r) ==
    /\ requests[r].pc = "numbered"
    /\ SaveInstance(r, "saved")

\* save_model, lines 883-904: the checked boxes of the form's items over the
\* saved meal plan, or, with a template chosen and nothing checked, the
\* template's items on the first meal
selected_entries(r) ==
    LET q == requests[r]
        meal_names == q.obj.meal_plan
        read == {c \in q.form.checked :
                    c.item \in q.menu_items /\ c.idx < Len(meal_names)}
        checked == {[item |-> c.item, idx |-> c.idx,
                     meal_name |-> meal_names[c.idx + 1],
                     servings |-> IF Truthy(c.servings) THEN c.servings[1]
                                  ELSE MenuItem[c.item].default_servings_per_person] :
                    c \in read}
    IN  IF q.form.use_template # None /\ checked = {}
        THEN {[item |-> mid, idx |-> 0, meal_name |-> meal_names[1],
               servings |-> MenuItem[mid].default_servings_per_person] :
                 mid \in TxTemplates(r)[q.form.use_template[1]]}
        ELSE checked

\* the rows of an estimate after .filter(estimate=obj).delete() and the
\* creates that follow it, keeping the existing rows instead
ReplaceRows_NoDelete(existing, created) == existing \cup created

\* the rows of an estimate after .filter(estimate=obj).delete() and the
\* creates that follow it
ReplaceRows(existing, created) == (existing \ existing) \cup created

\* save_model, lines 883-925: the food choices of the estimate are deleted
\* and one is created per selected entry (unique_together (estimate,
\* menu_item, meal_name) raises IntegrityError on a repeated pair); then the
\* selection is saved as a template if a name was given.
ReplaceFoodChoices(r) ==
    LET q == requests[r]
        entries == selected_entries(r)
        repeated == \E a, b \in entries :
                        a # b /\ a.item = b.item /\ a.meal_name = b.meal_name
        created == {[FoodChoice(q.target, s.item, s.meal_name, Some(s.servings))
                        EXCEPT !.inserted_by = q.serial] : s \in entries}
        template_name == q.form.save_as_template
        written == IF template_name # "" /\ entries # {}
                   THEN [n \in DOMAIN q.tx.templates \cup {template_name} |->
                            IF n = template_name THEN {s.item : s \in entries}
                            ELSE q.tx.templates[n]]
                   ELSE q.tx.templates
    IN  /\ q.pc = "saved"
        /\ IF repeated THEN Rollback(r)
           ELSE /\ requests' = [requests EXCEPT ![r] =
                      [q EXCEPT !.pc = "food",
                                !.tx.food = Some(ReplaceRows(TxFoodChoices(r), created)),
                                !.tx.templates = written]]
                /\ lock' = lock
        /\ UNCHANGED <<http, printed, menu_item_rows, caterer, estimates, food_choices, extra_lines, templates,
                       submitted, last>>

\* save_model, lines 927-946: if the form has extra items, the extra lines
\* of the estimate are deleted and one is created per included extra.
ReplaceExtraItems(r) ==
    LET q == requests[r]
        included == {x \in q.form.extras : x.extra \in q.extra_items}
        created == {[ExtraLine(q.target, x.extra,
                               IF Truthy(x.quantity) THEN x.quantity[1] ELSE 100,
                               x.override_price)
                        EXCEPT !.inserted_by = q.serial] : x \in included}
    IN  /\ q.pc = "food"
        /\ requests' = [requests EXCEPT ![r] =
              [q EXCEPT !.pc = "extras",
                        !.tx.extras = IF q.extra_items # {}
                                      THEN Some(ReplaceRows(TxExtraLines(r), created))
                                      ELSE @]]
        /\ UNCHANGED <<http, printed, menu_item_rows, caterer, estimates, food_choices, extra_lines, templates,
                       lock, submitted, last>>

\* save_model, line 948: obj.save() after the rows were rebuilt
FinalSave(r) ==
    /\ requests[r].pc = "extras"
    /\ SaveInstance(r, "final")

\* the handler returns: the transaction commits and its locks are released
Commit(r) ==
    LET q == requests[r]
        t == q.target
    IN  /\ q.pc = "final"
        /\ estimates' = [estimates EXCEPT ![t] = q.tx.estimate[1]]
        /\ caterer' = IF q.tx.counter # None
                      THEN [caterer EXCEPT !.estimate_number_counter = q.tx.counter[1]]
                      ELSE caterer
        /\ food_choices' = IF q.tx.food # None
                           THEN (food_choices \ FoodChoicesOf(t)) \cup q.tx.food[1]
                           ELSE food_choices
        /\ extra_lines' = IF q.tx.extras # None
                          THEN (extra_lines \ ExtraLinesOf(t)) \cup q.tx.extras[1]
                          ELSE extra_lines
        /\ templates' = TxTemplates(r)
        /\ requests' = [requests EXCEPT ![r] =
              [q EXCEPT !.pc = "done", !.tx = NoWrites]]
        /\ lock' = [k \in LockKeys |-> IF lock[k] = r THEN 0 ELSE lock[k]]
        /\ UNCHANGED <<http, printed, menu_item_rows, submitted, last>>

\* ExtraItemAdmin: the caterer switches one of its extra items on or off
SetExtraItemActive(x, active) ==
    /\ (x \in caterer.active_extras) # active
    /\ caterer' = [caterer EXCEPT !.active_extras =
                      IF active THEN @ \cup {x} ELSE @ \ {x}]
    /\ UNCHANGED <<http, printed, menu_item_rows, estimates, food_choices, extra_lines, templates, requests,
                   lock, submitted, last>>

\* the state after one estimate was quoted: 2 guests, item 1 for Dinner and
\* one extra line, numbered 1000
FirstFoodChoices == {FoodChoice(1, 1, Dinner, Some(100))}
FirstExtraLines == {ExtraLine(1, 1, 100, None)}
FirstEstimate ==
    recalc_totals([NewEstimate EXCEPT !.pk = TRUE, !.estimate_number = Some(1000),
                      !.guest_count = 2, !.meal_plan = <<Dinner>>],
                  DefaultCaterer, FirstFoodChoices, FirstExtraLines)

Init ==
    /\ caterer = [DefaultCaterer EXCEPT !.estimate_number_counter = 1001]
    /\ estimates = [id \in EstimateIds |->
          IF id = 1 THEN FirstEstimate ELSE NewEstimate]
    /\ food_choices = FirstFoodChoices
    /\ extra_lines = FirstExtraLines
    /\ templates = NoTemplates
    /\ requests = [r \in Requests |-> Idle]
    /\ lock = NoLocks
    /\ submitted = 0
    /\ http = NoRequest
    /\ printed = NotPrinted
    /\ menu_item_rows = {}
    /\ last = NotRun

Handle(r) ==
    \/ \E target \in EstimateIds, data \in Forms : ChangeformPost(r, target, data)
    \/ AssignNumberAndPlan(r)
    \/ SuperSaveModel(r)
    \/ ReplaceFoodChoices(r)
    \/ ReplaceExtraItems(r)
    \/ FinalSave(r)
    \/ Commit(r)

CatalogEdit == \E x \in ExtraItemIds, active \in BOOLEAN : SetExtraItemActive(x, active)

\* one submission at a time
Next == Handle(1) \/ CatalogEdit

Spec == Init /\ [][Next]_vars

\* submissions handled at the same time
NextConcurrent == (\E r \in Requests : Handle(r)) \/ CatalogEdit

SpecConcurrent == Init /\ [][NextConcurrent]_vars

(***************************************************************************)
(* Properties                                                              *)
(***************************************************************************)
Saved(id) == last.op = "save" /\ last.estimate = id

\* C1: after recalc_totals on a persisted estimate, grand_total is
\* food_price_per_person x guest_count + extras_total + staff_total +
\* dishes_total, to the cent.
C1_GrandTotalIsSumOfParts ==
    \A id \in EstimateIds :
        Saved(id) =>
            LET e == estimates[id]
            IN  e.grand_total = e.food_price_per_person * e.guest_count
                                + e.extras_total + e.staff_total + e.dishes_total

\* a recalculated estimate whose four parts are all non-zero, with a food
\* price that was rounded from a tie
C1_Witness ==
    /\ Saved(1)
    /\ estimates[1].food_price_per_person = 3126
    /\ estimates[1].guest_count = 3
    /\ estimates[1].extras_total > 0
    /\ estimates[1].staff_total > 0
    /\ estimates[1].dishes_total > 0

\* C2: after recalc_totals, deposit_amount + balance_due = grand_total.
C2_DepositPlusBalance ==
    \A id \in EstimateIds :
        Saved(id) =>
            LET e == estimates[id]
            IN  e.deposit_amount + e.balance_due = e.grand_total

\* a deposit that had to be rounded: the exact share is not a whole cent
C2_Witness ==
    /\ Saved(1)
    /\ (estimates[1].grand_total * estimates[1].deposit_percentage) % 10000 # 0
    /\ estimates[1].deposit_amount > 0
    /\ estimates[1].balance_due > 0

\* C3: a second recalc_totals in a row, with nothing changed in between,
\* leaves the seven derived fields as the first call set them.
C3_RecalcIdempotent ==
    [][\A id \in EstimateIds :
          (Saved(id) /\ last'.op = "save" /\ last'.estimate = id)
              => StoredTotals(estimates'[id]) = StoredTotals(estimates[id])]_vars

\* the second call in a row has run, on totals that are not all zero
C3_Witness ==
    /\ Saved(1)
    /\ last.count = 2
    /\ estimates[1].grand_total > 0
    /\ estimates[1].deposit_amount > 0

\* ceil((g - 100) / 25), stated without the code's arithmetic
CeilOver100(g) == CHOOSE n \in 0..g : 25 * n >= g - 100 /\ 25 * (n - 1) < g - 100

Tier(g) ==
    IF g = 0 THEN 0
    ELSE IF g <= 50 THEN 2
    ELSE IF g <= 75 THEN 3
    ELSE IF g <= 100 THEN 4
    ELSE 4 + CeilOver100(g)

TierCases ==
    {<<0, 0>>, <<1, 2>>, <<50, 2>>, <<51, 3>>, <<75, 3>>, <<76, 4>>, <<100, 4>>,
     <<101, 5>>, <<125, 5>>, <<126, 6>>}

\* C4: base_waiter_count follows the tier table (0; 2 up to 50; 3 up to 75;
\* 4 up to 100; then 4 + ceil((g - 100) / 25)), and total_waiter_count adds
\* extra_waiters.
C4_WaiterTiers ==
    \A id \in EstimateIds :
        LET e == estimates[id]
        IN  /\ base_waiter_count(e) = Tier(e.guest_count)
            /\ \A c \in TierCases : e.guest_count = c[1] => base_waiter_count(e) = c[2]
            /\ total_waiter_count(e) = Tier(e.guest_count) + e.extra_waiters
            /\ (Saved(id) /\ e.staff_hours = 600 /\ e.staff_tip_per_waiter = Some(100)
                    /\ caterer.staff_hourly_rate = 0)
                  => e.staff_total = 100 * (Tier(e.guest_count) + e.extra_waiters)

\* 126 guests and one extra waiter: 6 + 1 waiters were charged
C4_Witness ==
    /\ Saved(1)
    /\ estimates[1].guest_count = 126
    /\ estimates[1].extra_waiters = 1
    /\ estimates[1].staff_total = 700

\* C5: for an a-la-carte estimate calc_staff_total and calc_dishes_total
\* return 0.00 whatever the staffing and dishes inputs are.
C5_AlaCarteZero ==
    \A id \in EstimateIds :
        LET e == estimates[id]
        IN  e.is_ala_carte =>
              /\ calc_staff_total(e, caterer) = 0
              /\ calc_dishes_total(e, caterer) = 0
              /\ Saved(id) => (e.staff_total = 0 /\ e.dishes_total = 0)

\* an a-la-carte estimate with guests, paid staff and real dishes asked for
C5_Witness ==
    /\ Saved(1)
    /\ estimates[1].is_ala_carte
    /\ estimates[1].guest_count = 3
    /\ estimates[1].wants_real_dishes
    /\ estimates[1].staff_hours > 0
    /\ caterer.staff_hourly_rate > 0
    /\ caterer.real_dishes_flat_fee > 0
    /\ estimates[1].grand_total > 0

\* the override texts of the inputs that are decimals, in cents
OverrideCents(text) ==
    CASE text = <<"3", "0">> -> Some(3000)
      [] text = <<"1", "2", ".", "3", "4", "5">> -> Some(1234)
      [] text = <<"0">> -> Some(0)
      [] OTHER -> None

WithoutOverrides(e) == [e EXCEPT !.manual_meal_totals = <<>>]

\* C6: a section whose meal has a non-empty manual override that is a
\* decimal has price_per_guest = the override and total = override x
\* guest_count; its price_per_child and kids_total are those it has without
\* the override.
C6_ManualOverride ==
    \A id \in EstimateIds :
        LET e == estimates[id]
            sections == meal_sections(e, FoodChoicesOf(id))
            plain == meal_sections(WithoutOverrides(e), FoodChoicesOf(id))
        IN  e.pk =>
              \A i \in 1..Len(sections) :
                  LET name == sections[i].name
                  IN  (name \in DOMAIN e.manual_meal_totals
                          /\ OverrideCents(e.manual_meal_totals[name]) # None) =>
                        /\ sections[i].price_per_guest
                              = OverrideCents(e.manual_meal_totals[name])[1]
                        /\ sections[i].total
                              = OverrideCents(e.manual_meal_totals[name])[1] * e.guest_count
                        /\ sections[i].price_per_child = plain[i].price_per_child
                        /\ sections[i].kids_total = plain[i].kids_total

\* Dinner is overridden to "30" while its adult items price at 15.00 and its
\* kids items at 10.00, for 3 adults and 2 kids
C6_Witness ==
    LET e == estimates[1]
        sections == meal_sections(e, FoodChoicesOf(1))
        plain == meal_sections(WithoutOverrides(e), FoodChoicesOf(1))
    IN  /\ Saved(1)
        /\ e.manual_meal_totals = Override(Dinner, <<"3", "0">>)
        /\ e.guest_count = 3 /\ e.guest_count_kids = 2
        /\ plain[1].price_per_guest = 1500
        /\ sections[1].price_per_guest = 3000
        /\ sections[1].total = 9000
        /\ sections[1].kids_total = 2000
        /\ e.food_price_per_person = 3000

(***************************************************************************)
(* The selection-replacement workflow                                      *)
(***************************************************************************)
\* save_model has completed for request r and r has not submitted again
Done(r) == requests[r].pc = "done"

\* the rows of an estimate that the submission with this serial inserted
InsertedFoodChoices(id, serial) ==
    {ch \in FoodChoicesOf(id) : ch.inserted_by = serial}

InsertedExtraLines(id, serial) ==
    {line \in ExtraLinesOf(id) : line.inserted_by = serial}

\* the (menu item, meal name) pairs of a submission: the boxes checked, by
\* the position of their meal in the plan it was saved with, or, with a template chosen and
\* nothing checked, the template's items on the first meal
SubmittedFood(q) ==
    LET plan == q.obj.meal_plan
    IN  IF q.form.checked # {}
        THEN {<<c.item, plan[c.idx + 1]>> : c \in q.form.checked}
        ELSE IF q.form.use_template # None
        THEN {<<item, plan[1]>> : item \in templates[q.form.use_template[1]]}
        ELSE {}

\* the extras a submission includes
SubmittedExtras(q) == {x.extra : x \in q.form.extras}

\* C7: after save_model has completed for an estimate, the totals stored on
\* its row are those computed from the food-choice and extra-line rows that
\* this same save inserted.
C7_TotalsFromRowsOfThisSave ==
    \A r \in Requests :
        Done(r) =>
            LET q == requests[r]
                e == estimates[q.target]
            IN  StoredTotals(e)
                  = Totals(e, caterer, InsertedFoodChoices(q.target, q.serial),
                           InsertedExtraLines(q.target, q.serial))

\* the totals stored by a completed save_model are those computed from the
\* rows the estimate has then, whichever save inserted them
TotalsFromRowsPresent ==
    \A r \in Requests :
        Done(r) =>
            LET q == requests[r]
                e == estimates[q.target]
            IN  StoredTotals(e)
                  = Totals(e, caterer, FoodChoicesOf(q.target),
                           ExtraLinesOf(q.target))

C9_ExtraLinesReplaced ==
    \A r \in Requests :
        Done(r) =>
            LET q == requests[r]
                rows == ExtraLinesOf(q.target)
            IN  /\ {line.extra_item : line \in rows} = SubmittedExtras(q)
                /\ Cardinality(rows) = Cardinality(SubmittedExtras(q))
                /\ \A line \in rows : line.inserted_by = q.serial

\* the extra lines are replaced whenever the form had extra items to offer
ExtraLinesReplacedWhenOffered ==
    \A r \in Requests :
        (Done(r) /\ requests[r].extra_items # {}) =>
            LET q == requests[r]
                rows == ExtraLinesOf(q.target)
            IN  /\ {line.extra_item : line \in rows} = SubmittedExtras(q)
                /\ Cardinality(rows) = Cardinality(SubmittedExtras(q))
                /\ \A line \in rows : line.inserted_by = q.serial

\* C10: when two save_model calls for the same estimate were in flight
\* together and both have completed, the estimate's rows are exactly those
\* of one of the two submissions and its totals are computed from them.
C10_ConcurrentSavesLeaveOneSelection ==
    \A r1, r2 \in Requests :
        (/\ r1 # r2
         /\ Done(r1) /\ Done(r2)
         /\ requests[r1].overlap /\ requests[r2].overlap
         /\ requests[r1].target = requests[r2].target) =>
            LET t == requests[r1].target
                e == estimates[t]
            IN  \E r \in {r1, r2} :
                    LET q == requests[r]
                    IN  /\ {<<ch.menu_item, ch.meal_name>> : ch \in FoodChoicesOf(t)}
                              = SubmittedFood(q)
                        /\ FoodChoicesOf(t) = InsertedFoodChoices(t, q.serial)
                        /\ {line.extra_item : line \in ExtraLinesOf(t)}
                              = SubmittedExtras(q)
                        /\ ExtraLinesOf(t) = InsertedExtraLines(t, q.serial)
                        /\ StoredTotals(e)
                              = Totals(e, caterer, InsertedFoodChoices(t, q.serial),
                                       InsertedExtraLines(t, q.serial))

\* two saves of one estimate that were in flight together leave the food
\* choices, the estimate row and the totals of the one that committed last
ConcurrentSavesLeaveOneFoodSelection ==
    \A r1, r2 \in Requests :
        (/\ r1 # r2
         /\ Done(r1) /\ Done(r2)
         /\ requests[r1].overlap /\ requests[r2].overlap
         /\ requests[r1].target = requests[r2].target) =>
            LET t == requests[r1].target
                e == estimates[t]
            IN  \E r \in {r1, r2} :
                    LET q == requests[r]
                    IN  /\ {<<ch.menu_item, ch.meal_name>> : ch \in FoodChoicesOf(t)}
                              = SubmittedFood(q)
                        /\ FoodChoicesOf(t) = InsertedFoodChoices(t, q.serial)
                        /\ e.guest_count = q.form.guest_count
                        /\ e.meal_plan = q.obj.meal_plan
                        /\ requests[r].extra_items # {} =>
                              /\ {line.extra_item : line \in ExtraLinesOf(t)}
                                    = SubmittedExtras(q)
                              /\ ExtraLinesOf(t) = InsertedExtraLines(t, q.serial)
                        /\ StoredTotals(e)
                              = Totals(e, caterer, FoodChoicesOf(t), ExtraLinesOf(t))

(***************************************************************************)
(* Extras                                                                  *)
(***************************************************************************)
\* what one included extra of a submission costs, in units of 10^-4: its
\* override price when one was entered, else catalog price x quantity
\* (x guest_count for a per-person extra); a blank quantity is the field's
\* default, 1.00
SubmittedExtraPrice(e, x) ==
    LET item == ExtraItem[x.extra]
        qty == IF x.quantity = None THEN 100 ELSE x.quantity[1]
    IN  IF x.override_price # None THEN x.override_price[1] * 100
        ELSE IF item.charge_type = "PER_PERSON"
             THEN (item.price * e.guest_count) * qty
             ELSE item.price * qty

SubmittedExtrasTotal(e, extras) ==
    Quantize(SumOver(extras, [x \in extras |-> SubmittedExtraPrice(e, x)]), 100)

\* C11: the extras total is the sum over the extra lines of the override
\* price when one is set, else catalog price x quantity (x guest_count for a
\* per-person extra), for every quantity >= 0, rounded once at the end.
\* Stated on a save whose form offered extra items: the stored extras_total
\* is that sum over the extras and quantities submitted.
C11_ExtrasTotal ==
    \A r \in Requests :
        (Done(r) /\ requests[r].extra_items # {}) =>
            LET q == requests[r]
                e == estimates[q.target]
            IN  e.extras_total = SubmittedExtrasTotal(e, q.form.extras)

\* the same for submissions in which no included extra has quantity 0
ExtrasTotalForNonZeroQuantities ==
    \A r \in Requests :
        (/\ Done(r) /\ requests[r].extra_items # {}
         /\ \A x \in requests[r].form.extras : x.quantity # Some(0)) =>
            LET q == requests[r]
                e == estimates[q.target]
            IN  e.extras_total = SubmittedExtrasTotal(e, q.form.extras)

\* calc_extras_total over stored lines is the sum of override, or catalog
\* price x quantity (x guest_count), for every stored quantity above 0
ExtrasTotalOfStoredLines ==
    \A id \in EstimateIds :
        LET e == estimates[id]
            els == ExtraLinesOf(id)
            asSubmitted == {Included(l.extra_item, Some(l.quantity), l.override_price) :
                               l \in els}
        IN  (e.pk /\ \A l \in els : l.quantity > 0) =>
                calc_extras_total(e, els) = SubmittedExtrasTotal(e, asSubmitted)

(***************************************************************************)
(* Estimate.save() on an instance that has no row yet: recalc_totals runs  *)
(* while pk is None, then the row is inserted.                             *)
(***************************************************************************)
EstimateCreate(id) ==
    /\ ~estimates[id].pk
    /\ estimates' = [estimates EXCEPT
           ![id] = [recalc_totals(@, caterer, FoodChoicesOf(id), ExtraLinesOf(id))
                       EXCEPT !.pk = TRUE]]
    /\ last' = Ran("create", id)
    /\ UNCHANGED <<http, printed, menu_item_rows, caterer, food_choices, extra_lines, templates, requests,
                   lock, submitted>>

\* (meal plan, manual per-meal overrides) of an instance not saved yet; a
\* plan may hold blank, padded and repeated names
UnsavedPlans ==
    {<<<<>>, <<>>>>,
     <<<<Dinner>>, Override(Dinner, <<"3", "0">>)>>,
     <<<<<<" ">> \o Dinner \o <<" ">>, <<>>, <<" ", " ">>, Lunch>>, <<>>>>,
     <<<<<<>>, <<" ">>>>, <<>>>>,
     <<<<Lunch, Dinner, Lunch>>, Override(Lunch, <<"a", "b", "c">>)>>}

InitUnsaved ==
    /\ caterer \in CatererConfigs
    /\ \E g \in GuestCounts, k \in KidsCounts, dep \in DepositPercentages,
          ala \in BOOLEAN, st \in StaffConfigs, di \in DishesConfigs,
          pl \in UnsavedPlans :
          estimates = [id \in EstimateIds |->
              IF id = 1
              THEN [Configured(g, k, dep, ala, st, di, <<pl[1], pl[2]>>)
                       EXCEPT !.pk = FALSE, !.estimate_number = None]
              ELSE NewEstimate]
    /\ food_choices = {}
    /\ extra_lines = {}
    /\ templates = NoTemplates
    /\ requests = [r \in Requests |-> Idle]
    /\ lock = NoLocks
    /\ submitted = 0
    /\ http = NoRequest
    /\ printed = NotPrinted
    /\ menu_item_rows = {}
    /\ last = NotRun

NextUnsaved == \E id \in EstimateIds : EstimateCreate(id) \/ EstimateSave(id)

SpecUnsaved == InitUnsaved /\ [][NextUnsaved]_vars

Created(id) == last.op = "create" /\ last.estimate = id

\* C12: for an estimate with no primary key recalc_totals sets all seven
\* derived fields to 0.00 whatever the other inputs are, and meal_sections
\* returns one section per name of the normalized meal plan, in plan order,
\* each with empty category lists and all four amounts 0.00.
C12_NoPkAllZero ==
    \A id \in EstimateIds :
        LET e == estimates[id]
            plan == get_meal_plan(e)
            sections == meal_sections(e, FoodChoicesOf(id))
        IN  /\ Created(id) => StoredTotals(e) = [f \in TotalFields |-> 0]
            /\ ~e.pk =>
                  /\ StoredTotals(recalc_totals(e, caterer, FoodChoicesOf(id),
                                                ExtraLinesOf(id)))
                        = [f \in TotalFields |-> 0]
                  /\ Len(sections) = Len(plan)
                  /\ \A i \in 1..Len(plan) :
                        /\ sections[i].name = plan[i]
                        /\ sections[i].categories = {}
                        /\ sections[i].kids_categories = {}
                        /\ sections[i].price_per_guest = 0
                        /\ sections[i].price_per_child = 0
                        /\ sections[i].total = 0
                        /\ sections[i].kids_total = 0

\* a new estimate for 3 guests with paid staff and real dishes was saved for
\* the first time: its row holds zero totals
C12_Witness ==
    /\ Created(1)
    /\ estimates[1].guest_count = 3
    /\ ~estimates[1].is_ala_carte
    /\ estimates[1].wants_real_dishes
    /\ estimates[1].staff_hours > 0
    /\ caterer.staff_hourly_rate > 0
    /\ Len(estimates[1].meal_plan) = 4
    /\ estimates[1].grand_total = 0

(***************************************************************************)
(* Rates and fees: overrides and tenant defaults                           *)
(***************************************************************************)
\* the staff total for a given hourly rate and tip per waiter
StaffTotalWith(e, rate, tip) ==
    IF e.is_ala_carte \/ total_waiter_count(e) = 0 THEN 0
    ELSE Quantize(rate * e.staff_hours * total_waiter_count(e)
                  + tip * total_waiter_count(e) * 100, 100)

\* the dishes total for a given per-person price and flat fee
DishesTotalWith(e, per_person, flat) ==
    IF e.is_ala_carte \/ ~e.wants_real_dishes THEN 0
    ELSE per_person * e.guest_count + flat

\* A tenant default is a NOT NULL column of CatererAccount: the default that
\* is absent is the one left at 0.00.  An override that is absent is null.
\* C13: when, for a staff rate, staff tip, real-dishes per-person price or
\* real-dishes flat fee, both the estimate's override and the tenant default
\* are absent, calc_staff_total and calc_dishes_total use zero for that
\* input and return a total.
C13_MissingRatesAreZero ==
    \A id \in EstimateIds :
        LET e == estimates[id]
            c == caterer
            flat == IF Truthy(e.real_dishes_flat_fee)
                    THEN e.real_dishes_flat_fee[1] ELSE c.real_dishes_flat_fee
            per_person == IF Truthy(e.real_dishes_price_per_person)
                          THEN e.real_dishes_price_per_person[1]
                          ELSE c.real_dishes_price_per_person
        IN  e.pk =>
              /\ (e.staff_hourly_rate = None /\ c.staff_hourly_rate = 0) =>
                    /\ calc_staff_total(e, c)
                          = StaffTotalWith(e, 0, _get_staff_tip_per_waiter(e, c))
                    /\ Saved(id) => e.staff_total = calc_staff_total(e, c)
              /\ (e.staff_tip_per_waiter = None /\ c.staff_tip_per_waiter = 0) =>
                    calc_staff_total(e, c)
                        = StaffTotalWith(e, _get_staff_hourly_rate(e, c), 0)
              /\ (e.real_dishes_price_per_person = None
                      /\ c.real_dishes_price_per_person = 0) =>
                    /\ calc_dishes_total(e, c) = DishesTotalWith(e, 0, flat)
                    /\ Saved(id) => e.dishes_total = calc_dishes_total(e, c)
              /\ (e.real_dishes_flat_fee = None /\ c.real_dishes_flat_fee = 0) =>
                    calc_dishes_total(e, c) = DishesTotalWith(e, per_person, 0)

\* 3 guests and one extra waiter, no hourly rate anywhere but a tip of 9.95,
\* real dishes wanted with no price anywhere: staff 3 x 9.95, dishes 0.00
C13_Witness ==
    /\ Saved(1)
    /\ ~estimates[1].is_ala_carte
    /\ estimates[1].guest_count = 3
    /\ estimates[1].staff_hourly_rate = None
    /\ caterer.staff_hourly_rate = 0
    /\ estimates[1].staff_tip_per_waiter = Some(995)
    /\ estimates[1].staff_total = 2985
    /\ estimates[1].wants_real_dishes
    /\ estimates[1].real_dishes_price_per_person = None
    /\ estimates[1].real_dishes_flat_fee = None
    /\ caterer.real_dishes_flat_fee = 0
    /\ estimates[1].dishes_total = 0

(***************************************************************************)
(* Manual overrides that do not parse                                      *)
(***************************************************************************)
\* the override texts of the inputs that Decimal() rejects
MalformedTexts ==
    {<<"a", "b", "c">>, <<"1", ".", "2", ".", "3">>, <<"1", "2", "a">>}

\* C14: in meal_sections a manual override that is not parseable as a
\* decimal is ignored: the section's price_per_guest and total are what they
\* are with no override for that meal.
C14_MalformedOverrideIgnored ==
    \A id \in EstimateIds :
        LET e == estimates[id]
            sections == meal_sections(e, FoodChoicesOf(id))
            plain == meal_sections(WithoutOverrides(e), FoodChoicesOf(id))
        IN  e.pk =>
              \A i \in 1..Len(sections) :
                  LET name == sections[i].name
                  IN  (name \in DOMAIN e.manual_meal_totals
                          /\ e.manual_meal_totals[name] \in MalformedTexts) =>
                        /\ sections[i].price_per_guest = plain[i].price_per_guest
                        /\ sections[i].total = plain[i].total
                        /\ sections[i].price_per_guest
                              = _price_for({ch \in FoodChoicesOf(id) :
                                              ch.meal_name = name /\ ~IsKidsChoice(ch)})

\* Dinner is overridden to "1.2.3" and Lunch to "12a"; for 3 guests the
\* sections keep the prices of their items, 30.00 and 1.26
C14_Witness ==
    LET e == estimates[1]
        sections == meal_sections(e, FoodChoicesOf(1))
    IN  /\ e.pk
        /\ e.guest_count = 3
        /\ Len(sections) = 2
        /\ DOMAIN e.manual_meal_totals = {Dinner, Lunch}
        /\ e.manual_meal_totals[Dinner] = <<"1", ".", "2", ".", "3">>
        /\ e.manual_meal_totals[Lunch] = <<"1", "2", "a">>
        /\ sections[1].price_per_guest = 3000
        /\ sections[2].price_per_guest = 126
        /\ sections[2].total = 378

(***************************************************************************)
(* The meal plan                                                           *)
(***************************************************************************)
\* stored meal plans and what get_meal_plan is to return for them
PlanCases ==
    {<<<<>>, <<SignatureMenu>>>>,
     <<<<Dinner>>, <<Dinner>>>>,
     <<<<<<" ">> \o Dinner \o <<" ">>, <<>>, <<" ", " ">>, Lunch>>, <<Dinner, Lunch>>>>,
     <<<<<<>>, <<" ">>>>, <<SignatureMenu>>>>}

\* a name with nothing but whitespace in it
IsBlank(name) == \A i \in 1..Len(name) : name[i] \in Whitespace

\* short is name without the whitespace at its two ends
IsTrimOf(short, name) ==
    /\ short # <<>>
    /\ short[1] \notin Whitespace
    /\ short[Len(short)] \notin Whitespace
    /\ \E a \in 1..Len(name) :
          /\ a + Len(short) - 1 <= Len(name)
          /\ SubSeq(name, a, a + Len(short) - 1) = short
          /\ \A i \in 1..Len(name) :
                (i < a \/ i > a + Len(short) - 1) => name[i] \in Whitespace

\* C15: get_meal_plan never returns an empty list: blank and whitespace-only
\* names are dropped, the remaining names are trimmed and kept in input
\* order, and when nothing remains the plan is the single meal
\* "Signature Menu".
C15_MealPlanNeverEmpty ==
    \A id \in EstimateIds :
        LET e == estimates[id]
            plan == get_meal_plan(e)
        IN  /\ plan # <<>>
            /\ \A i \in 1..Len(plan) :
                  /\ plan[i] # <<>>
                  /\ plan[i][1] \notin Whitespace
                  /\ plan[i][Len(plan[i])] \notin Whitespace
            /\ \A case \in PlanCases : e.meal_plan = case[1] => plan = case[2]
            /\ LET kept == {i \in 1..Len(e.meal_plan) : ~IsBlank(e.meal_plan[i])}
               IN  IF kept = {} THEN plan = <<SignatureMenu>>
                   ELSE /\ Len(plan) = Cardinality(kept)
                        /\ \A i \in kept :
                              IsTrimOf(plan[Cardinality({j \in kept : j <= i})],
                                       e.meal_plan[i])

\* a stored plan of a padded name, an empty one, a blank one and Lunch; the
\* other estimate has no plan at all
C15_Witness ==
    /\ estimates[1].meal_plan
          = <<<<" ">> \o Dinner \o <<" ">>, <<>>, <<" ", " ">>, Lunch>>
    /\ get_meal_plan(estimates[1]) = <<Dinner, Lunch>>
    /\ estimates[2].meal_plan = <<>>
    /\ get_meal_plan(estimates[2]) = <<SignatureMenu>>
    /\ Created(1)

(***************************************************************************)
(* TrialExpiryMiddleware (middleware.py).                                  *)
(***************************************************************************)
MaxClock == 2

\* the URL prefixes the middleware lets through
ignored ==
    {reverse("trial_expired"), reverse("marketing_home"), reverse("start_trial"),
     reverse("admin:login"), reverse("admin:logout")}

\* process_request: "redirect" to the trial-expired page, or "view" (None:
\* the request goes on to the view)
process_request(user, path, now) ==
    IF ~user.is_authenticated \/ user.is_superuser THEN "view"
    ELSE IF \E prefix \in ignored : StartsWith(path, prefix) THEN "view"
    ELSE IF user.caterer = None THEN "view"
    ELSE IF user.caterer[1].trial_expires_at = None THEN "view"
    ELSE IF now > user.caterer[1].trial_expires_at[1] THEN "redirect"
    ELSE "view"

\* the users that can make a request, each with the caterer account owned
Users ==
    [is_authenticated : BOOLEAN, is_superuser : BOOLEAN,
     caterer : {None} \cup
               {Some([trial_expires_at |-> t]) :
                    t \in {None} \cup {Some(i) : i \in 0..MaxClock}}]

\* the paths requested
Paths ==
    {reverse(name) : name \in
        {"marketing_home", "start_trial", "trial_expired", "admin:login",
         "admin:logout", "admin:index",
         "admin:client_estimates_estimate_changelist", "public_inquiry_no_slug"}}

\* one request passes through the middleware
TrialExpiryMiddleware(user, path, now) ==
    /\ http' = [path |-> path, now |-> now, user |-> user,
                response |-> process_request(user, path, now)]
    /\ UNCHANGED <<caterer, estimates, food_choices, extra_lines, templates,
                   requests, lock, submitted, printed, menu_item_rows, last>>

NextTrial ==
    \E user \in Users, path \in Paths, now \in 0..MaxClock :
        TrialExpiryMiddleware(user, path, now)

SpecTrial == Init /\ [][NextTrial]_vars

\* the request handled last came from an authenticated non-superuser whose
\* caterer account's trial has expired
ExpiredTrialUser ==
    /\ http.user.is_authenticated
    /\ ~http.user.is_superuser
    /\ http.user.caterer # None
    /\ http.user.caterer[1].trial_expires_at # None
    /\ http.user.caterer[1].trial_expires_at[1] < http.now

\* C16: a request of an expired trial user to a path other than the
\* trial-expired, marketing-home, start-trial, admin-login and admin-logout
\* URLs is answered with the redirect to the trial-expired page.
C16_ExpiredTrialBlocked ==
    (/\ http.response # "none"
     /\ ExpiredTrialUser
     /\ http.path \notin ignored)
        => http.response = "redirect"

\* what the code does for such a user: every request goes on to the view
ExpiredTrialNeverBlocked ==
    http.response # "redirect"

\* the request's handler has started and has not yet replaced the extra
\* lines: the delete-and-insert of the rows is not complete
RowsNotYetReplaced(r) ==
    requests[r].pc \in {"bound", "numbered", "saved", "food"}

\* C17: in save_model no recalc_totals result is computed and persisted
\* between the start of the workflow and the completion of the
\* delete-and-insert of the rows: the estimate row is not written before.
C17_NoRecalcBeforeRowsReplaced ==
    \A r \in Requests :
        RowsNotYetReplaced(r) => requests[r].tx.estimate = None

\* what the code does: the row written last in the workflow holds totals
\* computed after the rows were replaced, from the rows then present
LastRecalcAfterRowsReplaced ==
    \A r \in Requests :
        requests[r].pc = "final" =>
            /\ requests[r].tx.estimate # None
            /\ StoredTotals(requests[r].tx.estimate[1]) =
                   StoredTotals(recalc_totals(requests[r].tx.estimate[1], caterer,
                                              TxFoodChoices(r), TxExtraLines(r)))

\* the estimate-level override when it is non-null, the tenant default when
\* it is null
OverrideOrDefault(override, tenant_default) ==
    IF override # None THEN override[1] ELSE tenant_default

\* C18: for each of the four per-estimate overrides (staff hourly rate,
\* staff tip per waiter, real-dishes price per person, real-dishes flat fee)
\* the value calc_staff_total / calc_dishes_total use is the override
\* whenever it is non-null, for every override value >= 0, and the tenant
\* default only when the override is null.
C18_OverrideUsedWhenNonNull ==
    \A id \in EstimateIds :
        LET e == estimates[id]
            c == caterer
        IN  e.pk =>
              /\ calc_staff_total(e, c) =
                    StaffTotalWith(e,
                        OverrideOrDefault(e.staff_hourly_rate, c.staff_hourly_rate),
                        OverrideOrDefault(e.staff_tip_per_waiter, c.staff_tip_per_waiter))
              /\ calc_dishes_total(e, c) =
                    DishesTotalWith(e,
                        OverrideOrDefault(e.real_dishes_price_per_person,
                                          c.real_dishes_price_per_person),
                        OverrideOrDefault(e.real_dishes_flat_fee,
                                          c.real_dishes_flat_fee))

\* what the code does: the same, for the estimates none of whose overrides
\* is 0.00
OverrideUsedWhenNonZero ==
    \A id \in EstimateIds :
        LET e == estimates[id]
            c == caterer
        IN  (/\ e.pk
             /\ Some(0) \notin {e.staff_hourly_rate, e.staff_tip_per_waiter,
                                e.real_dishes_price_per_person,
                                e.real_dishes_flat_fee}) =>
              /\ calc_staff_total(e, c) =
                    StaffTotalWith(e,
                        OverrideOrDefault(e.staff_hourly_rate, c.staff_hourly_rate),
                        OverrideOrDefault(e.staff_tip_per_waiter, c.staff_tip_per_waiter))
              /\ calc_dishes_total(e, c) =
                    DishesTotalWith(e,
                        OverrideOrDefault(e.real_dishes_price_per_person,
                                          c.real_dishes_price_per_person),
                        OverrideOrDefault(e.real_dishes_flat_fee,
                                          c.real_dishes_flat_fee))

\* no name occurs twice in the list
Distinct(plan) ==
    \A i, j \in 1..Len(plan) : plan[i] = plan[j] => i = j

\* the sections of the estimate that count the food choice
SectionsCounting(e, ch) ==
    {i \in 1..Len(get_meal_plan(e)) :
        (IF ch.meal_name = <<>> THEN default_meal_name(e) ELSE ch.meal_name)
            = get_meal_plan(e)[i]}

\* C19: the meal plan of an estimate, as returned by get_meal_plan and as
\* stored by save_model, is a list of distinct meal names, so meal_sections
\* yields one section per distinct name and no food choice is counted in
\* more than one section.
C19_MealPlanDistinct ==
    \A id \in EstimateIds :
        LET e == estimates[id]
        IN  e.pk =>
              /\ Distinct(e.meal_plan)
              /\ Distinct(get_meal_plan(e))
              /\ Len(meal_sections(e, FoodChoicesOf(id)))
                    = Cardinality({get_meal_plan(e)[i] :
                                      i \in 1..Len(get_meal_plan(e))})
              /\ \A ch \in FoodChoicesOf(id) :
                    Cardinality(SectionsCounting(e, ch)) <= 1

\* what the code does: one section per entry of the plan, in plan order,
\* repeated names included
OneSectionPerPlanEntry ==
    \A id \in EstimateIds :
        LET e == estimates[id]
            sections == meal_sections(e, FoodChoicesOf(id))
        IN  e.pk =>
              /\ Len(sections) = Len(get_meal_plan(e))
              /\ \A i \in 1..Len(sections) : sections[i].name = get_meal_plan(e)[i]

(***************************************************************************)
(* Children and the estimate-level totals                                  *)
(***************************************************************************)
\* the food choices that are not in the kids bucket
AdultChoices(fcs) == {ch \in fcs : ~IsKidsChoice(ch)}

\* other kids-bucket selections an estimate could have (menu item 3 is the
\* kids item)
KidsAlternatives ==
    {{}, {FoodChoice(1, 3, Dinner, Some(100))},
     {FoodChoice(1, 3, <<>>, None), FoodChoice(1, 3, Lunch, Some(150))}}

\* the fields the children have no part in
AdultFields ==
    {"food_price_per_person", "grand_total", "deposit_amount", "balance_due"}

\* C20: food_price_per_person is the sum over the meals of the meal's adult
\* price_per_guest only; two estimates that differ only in guest_count_kids
\* and in their kids-bucket food choices get identical food_price_per_person,
\* grand_total, deposit_amount and balance_due from recalc_totals.
C20_KidsOutsideEstimateTotals ==
    \A id \in EstimateIds :
        LET e == estimates[id]
            fcs == FoodChoicesOf(id)
            els == ExtraLinesOf(id)
            adults == AdultChoices(fcs)
        IN  Saved(id) =>
              /\ e.food_price_per_person =
                    SumPricePerGuest(meal_sections(e, adults))
              /\ \A i \in 1..Len(get_meal_plan(e)) :
                    meal_sections(e, fcs)[i].price_per_guest =
                        meal_sections(e, adults)[i].price_per_guest
              /\ \A k \in KidsCounts, kids \in KidsAlternatives :
                    LET other == recalc_totals([e EXCEPT !.guest_count_kids = k],
                                               caterer, adults \cup kids, els)
                    IN  \A f \in AdultFields : other[f] = e[f]

\* 3 adults and 2 children, a kids item that prices at 10.00 per child in a
\* meal of the plan, and a food price per person above zero
C20_Witness ==
    LET e == estimates[1]
        sections == meal_sections(e, FoodChoicesOf(1))
    IN  /\ Saved(1)
        /\ e.guest_count = 3 /\ e.guest_count_kids = 2
        /\ \E i \in 1..Len(sections) :
              /\ sections[i].price_per_child = 1000
              /\ sections[i].kids_total = 2000
        /\ e.food_price_per_person > 0
        /\ e.grand_total > 0

(***************************************************************************)
(* Rounding of a bucket's price                                            *)
(***************************************************************************)
\* n / d to the nearest integer, halves rounded up (ROUND_HALF_UP), n >= 0
QuantizeHalfUp(n, d) ==
    IF 2 * (n % d) >= d THEN (n \div d) + 1 ELSE n \div d

\* the included choices meal_sections puts in the section of plan entry i
SectionChoices(e, fcs, i) ==
    {ch \in fcs :
        /\ ch.included
        /\ (IF ch.meal_name # <<>> THEN ch.meal_name ELSE get_meal_plan(e)[1])
               = get_meal_plan(e)[i]}

\* the sum of the items' servings x cost x markup, in units of 10^-6
RunningSum(items) == SumOver(items, [ch \in items |-> ItemPrice(ch)])

\* C21: in meal_sections a bucket's price per guest is the sum over its
\* items of effective servings-per-person x cost-per-serving x markup,
\* rounded to 2 decimals once on the running sum, halves rounded up.
C21_BucketPriceHalfUp ==
    \A id \in EstimateIds :
        LET e == estimates[id]
            fcs == FoodChoicesOf(id)
            sections == meal_sections(e, fcs)
        IN  e.pk =>
              \A i \in 1..Len(sections) :
                  LET items == SectionChoices(e, fcs, i)
                      adult == {ch \in items : ~IsKidsChoice(ch)}
                      kids == {ch \in items : IsKidsChoice(ch)}
                  IN  /\ sections[i].price_per_child
                            = QuantizeHalfUp(RunningSum(kids), 10000)
                      /\ OverridePrice(e.manual_meal_totals, sections[i].name) = None
                            => sections[i].price_per_guest
                                  = QuantizeHalfUp(RunningSum(adult), 10000)

\* what the code does: the price is the half-up value except where the
\* running sum lies exactly halfway between two cents above an even cent,
\* and there it is one cent less
BucketPriceOffAtTiesOnly ==
    \A id \in EstimateIds :
        LET e == estimates[id]
            fcs == FoodChoicesOf(id)
            sections == meal_sections(e, fcs)
        IN  e.pk =>
              \A i \in 1..Len(sections) :
                  LET items == SectionChoices(e, fcs, i)
                      adult == {ch \in items : ~IsKidsChoice(ch)}
                      sum == RunningSum(adult)
                      tie == sum % 10000 = 5000 /\ (sum \div 10000) % 2 = 0
                  IN  OverridePrice(e.manual_meal_totals, sections[i].name) = None
                        => sections[i].price_per_guest
                              = QuantizeHalfUp(sum, 10000) - (IF tie THEN 1 ELSE 0)

(***************************************************************************)
(* The staff total                                                         *)
(***************************************************************************)
\* C22: for an estimate that is not a-la-carte, calc_staff_total is 0.00
\* when total_waiter_count is 0, and otherwise rate x staff_hours x waiters
\* + tip x waiters rounded to 2 decimals once at the end, where waiters is
\* the base tier count plus extra_waiters.
C22_StaffTotal ==
    \A id \in EstimateIds :
        LET e == estimates[id]
            waiters == Tier(e.guest_count) + e.extra_waiters
            rate == _get_staff_hourly_rate(e, caterer)
            tip == _get_staff_tip_per_waiter(e, caterer)
            claimed == IF waiters = 0 THEN 0
                       ELSE Quantize(rate * e.staff_hours * waiters
                                        + 100 * (tip * waiters), 100)
        IN  (e.pk /\ ~e.is_ala_carte) =>
              /\ total_waiter_count(e) = waiters
              /\ calc_staff_total(e, caterer) = claimed
              /\ Saved(id) => e.staff_total = claimed

\* 3 waiters (2 for 3 guests and one extra) for 1.25 hours at 33.30 with a
\* tip of 9.95 each: 124.875 + 29.85 = 154.725, stored as 154.72
C22_Witness ==
    LET e == estimates[1]
    IN  /\ Saved(1)
        /\ ~e.is_ala_carte
        /\ e.guest_count = 3 /\ e.extra_waiters = 1
        /\ e.staff_hours = 125
        /\ _get_staff_hourly_rate(e, caterer) = 3330
        /\ _get_staff_tip_per_waiter(e, caterer) = 995
        /\ e.staff_total = 15472

(***************************************************************************)
(* The print views of the estimate admin (admin.py): print_estimate and    *)
(* print_estimate_flat build the context of the printed document.          *)
(***************************************************************************)
\* (a / Decimal(b)).quantize(Decimal("0.01")) for cents a and an integer b:
\* None when the division raises (b = 0)
DecimalDivide(a, b) ==
    IF b = 0 THEN None ELSE Some(Quantize(a, b))

\* the flat price per person with the division made for every guest total
flat_per_person_Unguarded(grand_total, total_guests) ==
    DecimalDivide(grand_total, total_guests)

\* print_estimate_flat, lines 1118-1121
flat_per_person(grand_total, total_guests) ==
    IF total_guests # 0 THEN DecimalDivide(grand_total, total_guests)
    ELSE Some(0)

\* print_estimate, lines 1015-1031 (the same lines in print_estimate_flat,
\* 1086-1102): the staff breakdown, its two amounts quantized apart
staff_context(e, c) ==
    IF e.is_ala_carte THEN None
    ELSE LET waiters == total_waiter_count(e)
             rate == _get_staff_hourly_rate(e, c)
             tip == _get_staff_tip_per_waiter(e, c)
             staff_pay == Quantize((rate * e.staff_hours) * waiters, 100)
             staff_tip == tip * waiters
         IN  Some([waiters |-> waiters, hours |-> e.staff_hours,
                   hourly_rate |-> rate, labor_total |-> staff_pay,
                   tip_per_waiter |-> tip, tip_total |-> staff_tip,
                   grand |-> staff_pay + staff_tip])

\* print_estimate, lines 1033-1038: sum(section["total"])
meal_total_amount(sections) ==
    SumOver(DOMAIN sections, [i \in DOMAIN sections |-> sections[i].total])

\* print_estimate_flat, lines 1104-1109: the kids totals are added
meal_total_amount_flat(sections) ==
    SumOver(DOMAIN sections,
            [i \in DOMAIN sections |-> sections[i].total + sections[i].kids_total])

\* who asks for the document: a superuser or not, the owner of the
\* estimate's caterer or not
Requesters == [is_superuser : BOOLEAN, is_owner : BOOLEAN]

\* raise PermissionDenied
Denied(view, id) ==
    [NotPrinted EXCEPT !.view = view, !.estimate = id,
                       !.status = "PermissionDenied"]

PrintEstimate(user, id) ==
    LET e == estimates[id]
    IN  /\ e.pk
        /\ printed' =
              IF ~user.is_superuser /\ ~user.is_owner
              THEN Denied("print_estimate", id)
              ELSE [NotPrinted EXCEPT
                      !.view = "print_estimate", !.estimate = id, !.status = "ok",
                      !.staff_context = staff_context(e, caterer),
                      !.meal_total_amount =
                          meal_total_amount(meal_sections(e, FoodChoicesOf(id))),
                      !.grand_total = e.grand_total]
        /\ UNCHANGED <<caterer, estimates, food_choices, extra_lines, templates,
                       requests, lock, submitted, http, menu_item_rows, last>>

\* the estimate is recalculated in memory first (line 1080) and not saved
PrintEstimateFlat(user, id) ==
    \E e \in {recalc_totals(estimates[id], caterer, FoodChoicesOf(id),
                            ExtraLinesOf(id))} :
      \E per_person \in {flat_per_person(e.grand_total,
                                         e.guest_count + e.guest_count_kids)} :
        LET flat_deposit_amount == Quantize(e.grand_total * 30, 100)
        IN  /\ e.pk
            /\ printed' =
                  IF ~user.is_superuser /\ ~user.is_owner
                  THEN Denied("print_estimate_flat", id)
                  ELSE IF per_person = None
                  THEN [NotPrinted EXCEPT
                          !.view = "print_estimate_flat", !.estimate = id,
                          !.status = "DivisionByZero"]
                  ELSE [NotPrinted EXCEPT
                          !.view = "print_estimate_flat", !.estimate = id,
                          !.status = "ok",
                          !.staff_context = staff_context(e, caterer),
                          !.meal_total_amount =
                              meal_total_amount_flat(
                                  meal_sections(e, FoodChoicesOf(id))),
                          !.grand_total = e.grand_total,
                          !.per_person = per_person[1],
                          !.flat_deposit_amount = flat_deposit_amount,
                          !.flat_balance = e.grand_total - flat_deposit_amount]
            /\ UNCHANGED <<caterer, estimates, food_choices, extra_lines,
                           templates, requests, lock, submitted, http,
                           menu_item_rows, last>>

\* the estimates printed: every guest count, kids count, staff and food
\* configuration, with one deposit percentage and the tenant's dishes prices
InitPrint ==
    /\ caterer = DefaultCaterer
    /\ \E g \in GuestCounts, k \in KidsCounts, ala \in BOOLEAN,
          st \in StaffConfigs, fo \in FoodConfigs :
          /\ estimates = [id \in EstimateIds |->
                 IF id = 1
                 THEN Configured(g, k, 1250, ala, st, <<TRUE, None, None>>, fo)
                 ELSE NewEstimate]
          /\ food_choices = fo[3]
    /\ extra_lines \in {{}, {ExtraLine(1, 1, 250, Some(12345)),
                             ExtraLine(1, 2, 100, None)}}
    /\ templates = NoTemplates
    /\ requests = [r \in Requests |-> Idle]
    /\ lock = NoLocks
    /\ submitted = 0
    /\ http = NoRequest
    /\ printed = NotPrinted
    /\ menu_item_rows = {}
    /\ last = NotRun

NextPrint ==
    \/ \E id \in EstimateIds : EstimateSave(id)
    \/ \E id \in EstimateIds, user \in Requesters : PrintEstimate(user, id)
    \/ \E id \in EstimateIds, user \in Requesters : PrintEstimateFlat(user, id)

SpecPrint == InitPrint /\ [][NextPrint]_vars

\* C23: the flat per-person price computed by print_estimate_flat
\* (grand_total divided by adults + kids) is 0.00 when the total number of
\* guests is zero, and the computation never fails with a division error.
C23_FlatPerPersonNoDivisionError ==
    /\ printed.status # "DivisionByZero"
    /\ (printed.view = "print_estimate_flat" /\ printed.status = "ok") =>
          LET e == estimates[printed.estimate]
              total_guests == e.guest_count + e.guest_count_kids
          IN  /\ total_guests = 0 => printed.per_person = 0
              /\ total_guests > 0 =>
                    /\ 2 * total_guests * printed.per_person
                          <= 2 * printed.grand_total + total_guests
                    /\ 2 * total_guests * printed.per_person
                          >= 2 * printed.grand_total - total_guests

\* the flat document of an estimate with no adults and no kids whose grand
\* total is not zero (staff and dishes are charged): per person 0.00
C23_Witness ==
    /\ printed.view = "print_estimate_flat"
    /\ printed.status = "ok"
    /\ estimates[printed.estimate].guest_count = 0
    /\ estimates[printed.estimate].guest_count_kids = 0
    /\ printed.grand_total > 0
    /\ printed.per_person = 0

(***************************************************************************)
(* Sections and buckets of the food choices                                *)
(***************************************************************************)
\* the choice is listed in one of the bucket's categories
InBucket(bucket, ch) == \E group \in bucket : ch \in group.choices

\* the choices listed in the bucket
BucketItems(bucket) == UNION {group.choices : group \in bucket}

\* the choice's meal name is blank or names a meal of the plan
NamesPlanMeal(e, ch) ==
    \/ ch.meal_name = <<>>
    \/ \E i \in 1..Len(get_meal_plan(e)) : get_meal_plan(e)[i] = ch.meal_name

\* every included choice that names a meal of the plan is in exactly one
\* section, there in exactly one bucket, the kids bucket if and only if its
\* category name contains "kid"; the prices come from their own bucket
SectionsPartitionChoices(e, fcs) ==
    LET sections == meal_sections(e, fcs)
        holding(ch) == {i \in 1..Len(sections) :
                           \/ InBucket(sections[i].categories, ch)
                           \/ InBucket(sections[i].kids_categories, ch)}
    IN  /\ \A ch \in fcs :
              (ch.included /\ NamesPlanMeal(e, ch)) =>
                  /\ Cardinality(holding(ch)) = 1
                  /\ \A i \in holding(ch) :
                        /\ sections[i].name =
                              (IF ch.meal_name = <<>> THEN sections[1].name
                               ELSE ch.meal_name)
                        /\ InBucket(sections[i].kids_categories, ch)
                              <=> IsKidsChoice(ch)
                        /\ InBucket(sections[i].categories, ch)
                              <=> ~IsKidsChoice(ch)
        /\ \A i \in 1..Len(sections) :
              /\ sections[i].price_per_child
                    = _price_for(BucketItems(sections[i].kids_categories))
              /\ OverridePrice(e.manual_meal_totals, sections[i].name) = None
                    => sections[i].price_per_guest
                          = _price_for(BucketItems(sections[i].categories))

\* C24: in meal_sections every included food choice whose meal name is
\* blank or names a meal of the plan is placed in exactly one section (the
\* first meal when blank) and there in exactly one bucket: the kids bucket
\* if and only if its menu item has a category whose name contains "kid"
\* case-insensitively, the adult bucket otherwise; price_per_child is
\* computed from kids-bucket items only and the computed price_per_guest
\* from adult-bucket items only.
C24_ChoiceInOneSectionOneBucket ==
    \A id \in EstimateIds :
        estimates[id].pk =>
            SectionsPartitionChoices(estimates[id], FoodChoicesOf(id))

\* what the code does: the same for the estimates whose plan repeats no name
OneSectionOneBucketInDistinctPlans ==
    \A id \in EstimateIds :
        (estimates[id].pk /\ Distinct(get_meal_plan(estimates[id]))) =>
            SectionsPartitionChoices(estimates[id], FoodChoicesOf(id))

(***************************************************************************)
(* Estimate numbers                                                        *)
(***************************************************************************)
\* the estimate rows that carry a number
Numbered == {id \in EstimateIds : estimates[id].pk /\ Truthy(estimates[id].estimate_number)}

\* the numbers are pairwise distinct and the counter is above each of them
NumbersDistinctBelowCounter ==
    /\ \A a, b \in Numbered :
          estimates[a].estimate_number = estimates[b].estimate_number => a = b
    /\ \A a \in Numbered :
          estimates[a].estimate_number[1] < caterer.estimate_number_counter

\* a step of the workflow: a save_model that completes for an estimate
\* without a number gives it the counter's value and raises the counter by
\* one; one for a numbered estimate keeps number and counter; no other step
\* touches either
NumberIssuedFromCounter ==
    \A id \in EstimateIds :
        LET had == estimates[id].pk /\ Truthy(estimates[id].estimate_number)
            completes == \E r \in Requests :
                            /\ requests[r].pc = "final"
                            /\ requests'[r].pc = "done"
                            /\ requests[r].target = id
        IN  IF completes /\ ~had
            THEN /\ estimates'[id].estimate_number
                       = Some(caterer.estimate_number_counter)
                 /\ caterer'.estimate_number_counter
                       = caterer.estimate_number_counter + 1
            ELSE /\ estimates'[id].estimate_number = estimates[id].estimate_number
                 /\ completes =>
                       caterer'.estimate_number_counter
                           = caterer.estimate_number_counter

\* C25: through any sequence of non-overlapping save_model calls for one
\* caterer, each estimate without a number receives the caterer's
\* estimate_number_counter value at that moment and the counter is then
\* increased by one, so the estimate numbers are pairwise distinct and the
\* counter is always greater than every number issued; an estimate that
\* already has a number keeps it and leaves the counter unchanged.
C25_NumbersFromCounter ==
    /\ []NumbersDistinctBelowCounter
    /\ [][NumberIssuedFromCounter]_vars

\* a new estimate was added after estimate 1 (number 1000) while the
\* counter stood at 1001
C25_Witness ==
    /\ requests[1].pc = "done"
    /\ requests[1].target = 2
    /\ estimates[1].estimate_number = Some(1000)
    /\ estimates[2].pk
    /\ estimates[2].estimate_number = Some(1001)
    /\ caterer.estimate_number_counter = 1002

(***************************************************************************)
(* Two submissions that add estimates for a caterer without estimates      *)
(***************************************************************************)
\* the add forms submitted: none of them fails on its own
AddForms ==
    {[BlankForm EXCEPT !.guest_count = 2],
     [BlankForm EXCEPT !.guest_count = 3, !.meal_plan_input = Dinner,
         !.checked = {Checked(1, 0, None)},
         !.extras = {Included(1, Some(100), None)}]}

InitAdds ==
    /\ caterer = DefaultCaterer
    /\ estimates = [id \in EstimateIds |-> NewEstimate]
    /\ food_choices = {}
    /\ extra_lines = {}
    /\ templates = NoTemplates
    /\ requests = [r \in Requests |-> Idle]
    /\ lock = NoLocks
    /\ submitted = 0
    /\ http = NoRequest
    /\ printed = NotPrinted
    /\ menu_item_rows = {}
    /\ last = NotRun

HandleAdd(r) ==
    \/ \E target \in EstimateIds, data \in AddForms : ChangeformPost(r, target, data)
    \/ AssignNumberAndPlan(r)
    \/ SuperSaveModel(r)
    \/ ReplaceFoodChoices(r)
    \/ ReplaceExtraItems(r)
    \/ FinalSave(r)
    \/ Commit(r)

NextAdds == \E r \in Requests : HandleAdd(r)

SpecAdds == InitAdds /\ [][NextAdds]_vars

\* the request has returned, with its transaction committed or rolled back
Finished(r) == requests[r].pc \in {"done", "failed"}

\* two finished submissions for different estimates that loaded the same
\* counter value: the second one was bound before the first one committed
InterleavedAdds(r1, r2) ==
    /\ r1 # r2
    /\ Finished(r1) /\ Finished(r2)
    /\ requests[r1].target # requests[r2].target
    /\ requests[r1].counter = requests[r2].counter

\* C26: when two save_model calls that create new estimates for the same
\* caterer interleave, the two estimates are assigned different estimate
\* numbers and the caterer's counter ends two higher than it started.
C26_InterleavedAddsGetDistinctNumbers ==
    \A r1, r2 \in Requests :
        InterleavedAdds(r1, r2) =>
            /\ estimates[requests[r1].target].pk
            /\ estimates[requests[r2].target].pk
            /\ estimates[requests[r1].target].estimate_number
                  # estimates[requests[r2].target].estimate_number
            /\ caterer.estimate_number_counter = requests[r1].counter + 2

\* what the code does: the submission that saves second is given the number
\* of the first, fails on the unique constraint and is rolled back
InterleavedAddsLoseOne ==
    \A r1, r2 \in Requests :
        InterleavedAdds(r1, r2) =>
            /\ requests[r1].pc = "failed" \/ requests[r2].pc = "failed"
            /\ requests[r1].pc = "done" \/ requests[r2].pc = "done"
            /\ caterer.estimate_number_counter = requests[r1].counter + 1
            /\ NumbersDistinctBelowCounter

(***************************************************************************)
(* Menu items added from the estimate form (admin.py,                      *)
(* _create_inline_menu_items): two tenants and three admin users.          *)
(***************************************************************************)
MaxInlineItems == 4

\* CatererAccount pk -> owner; the tenant of the estimates above is 1
CatererOwner == [c \in {1, 2} |-> IF c = 1 THEN "alice" ELSE "bob"]

\* MenuCategory pk -> caterer
MenuCategoryCaterer == [k \in {1, 2} |-> k]

\* staff users; can_add is the model permission to add estimates
AdminUsers ==
    {[name |-> "alice", is_superuser |-> FALSE, can_add |-> TRUE],
     [name |-> "bob", is_superuser |-> FALSE, can_add |-> FALSE],
     [name |-> "root", is_superuser |-> TRUE, can_add |-> TRUE]}

NewItem(raw_cat_id, name, cost_raw) ==
    [raw_cat_id |-> raw_cat_id, name |-> name, cost_raw |-> cost_raw]

Soup == <<"S", "o", "u", "p">>

\* POST data: the caterer field and the new_item_* fields, in POST order
InlinePosts ==
    {[caterer |-> None, new_items |-> <<NewItem(<<"1">>, Soup, <<"4", ".", "5", "0">>)>>],
     [caterer |-> Some(1), new_items |-> <<NewItem(<<"1">>, Soup, <<"4", ".", "5", "0">>)>>],
     [caterer |-> Some(1), new_items |-> <<NewItem(<<"1">>, <<" ", " ">>, <<"1">>)>>],
     [caterer |-> Some(2), new_items |-> <<NewItem(<<"n", "o", "n", "e">>, <<" ">> \o Soup, <<"a", "b", "c">>)>>],
     [caterer |-> Some(2), new_items |-> <<NewItem(<<"1">>, Soup, <<>>),
                                           NewItem(<<"2">>, Kid, <<"2">>)>>],
     [caterer |-> Some(3), new_items |-> <<NewItem(<<"1">>, Soup, <<"1">>)>>]}

\* MenuCategory.objects.filter(pk=raw_cat_id, caterer=caterer).first()
inline_category(raw_cat_id, caterer_id) ==
    IF raw_cat_id = <<>> \/ Lower(raw_cat_id) \in {<<"n", "o", "n", "e">>, <<"n", "u", "l", "l">>}
    THEN None
    ELSE IF /\ DigitsValue(raw_cat_id) \in DOMAIN MenuCategoryCaterer
            /\ MenuCategoryCaterer[DigitsValue(raw_cat_id)] = caterer_id
    THEN Some(DigitsValue(raw_cat_id))
    ELSE None

\* Decimal(cost_raw), 0.00 when the field is empty or does not parse
inline_cost(cost_raw) ==
    LET text == Strip(IF cost_raw = <<>> THEN <<"0">> ELSE cost_raw)
        parsed == ParseDecimal(text)
    IN  IF parsed.ok THEN [int |-> parsed.int, scale |-> parsed.scale]
        ELSE [int |-> 0, scale |-> 2]

RECURSIVE create_items(_, _, _, _)
\* the loop of _create_inline_menu_items over the new_item_name_* fields
create_items(rows, caterer_id, new_items, user) ==
    IF new_items = <<>> THEN rows
    ELSE LET item == Head(new_items)
             name == Strip(item.name)
             row == [id |-> Cardinality(rows) + 1, caterer |-> caterer_id,
                     category |-> inline_category(item.raw_cat_id, caterer_id),
                     name |-> name, cost_per_serving |-> inline_cost(item.cost_raw),
                     is_active |-> TRUE, created_by |-> user.name]
         IN  create_items(IF name = <<>> THEN rows ELSE rows \cup {row},
                          caterer_id, Tail(new_items), user)

\* _create_inline_menu_items for a POST: the caterer is the one the POST
\* names
_create_inline_menu_items(rows, post, user) ==
    IF post.caterer = None THEN rows
    ELSE IF post.caterer[1] \notin DOMAIN CatererOwner THEN rows
    ELSE create_items(rows, post.caterer[1], post.new_items, user)

\* has_change_permission(request, obj); obj is None for a missing estimate
has_change_permission(user, object_id) ==
    \/ user.is_superuser
    \/ /\ estimates[object_id].pk
       /\ CatererOwner[1] = user.name

\* _changeform_view for a POST with "_apply_meal_plan" (a preview: the form
\* is bound but nothing of the estimate is saved): the permission checks,
\* then _create_inline_menu_items, then the form is shown again
ApplyMealPlanPost(user, object_id, post) ==
    LET add == object_id = None
        allowed == IF add THEN user.is_superuser \/ user.can_add
                   ELSE /\ has_change_permission(user, object_id[1])
                        /\ estimates[object_id[1]].pk
    IN  /\ Cardinality(menu_item_rows) + Len(post.new_items) <= MaxInlineItems
        /\ menu_item_rows' =
              IF allowed THEN _create_inline_menu_items(menu_item_rows, post, user)
              ELSE menu_item_rows
        /\ UNCHANGED <<caterer, estimates, food_choices, extra_lines, templates,
                       requests, lock, submitted, http, printed, last>>

NextInline ==
    \E user \in AdminUsers, post \in InlinePosts,
       object_id \in {None} \cup {Some(id) : id \in EstimateIds} :
        ApplyMealPlanPost(user, object_id, post)

SpecInline == Init /\ [][NextInline]_vars

\* C27: menu items created through the estimate form's inline "new item"
\* fields always belong to a caterer owned by the requesting user, unless
\* the user is a superuser: a non-superuser can never add a menu item to
\* another tenant's catalog.
C27_InlineItemsStayInOwnTenant ==
    \A row \in menu_item_rows :
        \/ \E user \in AdminUsers : user.name = row.created_by /\ user.is_superuser
        \/ CatererOwner[row.caterer] = row.created_by

\* what the code does keep: the category of a new item is one of the
\* caterer the POST names, or none
InlineItemCategoryOfSameCaterer ==
    \A row \in menu_item_rows :
        row.category # None => MenuCategoryCaterer[row.category[1]] = row.caterer

\* a print view has answered with a document of an estimate that is not
\* a-la-carte
StaffPrinted ==
    /\ printed.view \in {"print_estimate", "print_estimate_flat"}
    /\ printed.status = "ok"
    /\ printed.staff_context # None

\* C28: for every estimate that is not a-la-carte, the staff breakdown shown
\* on the printed estimate (labor_total + tip_total, each rounded to 2
\* decimals separately in print_estimate) equals the staff total that
\* calc_staff_total computes for the same estimate (rounded once on the sum).
C28_PrintedStaffEqualsStaffTotal ==
    StaffPrinted =>
        printed.staff_context[1].labor_total + printed.staff_context[1].tip_total
            = calc_staff_total(estimates[printed.estimate], caterer)

\* what the code does: the two agree to within one cent, and exactly
\* whenever the pay is not halfway between two cents
PrintedStaffWithinOneCent ==
    StaffPrinted =>
        LET e == estimates[printed.estimate]
            ctx == printed.staff_context[1]
            shown == ctx.labor_total + ctx.tip_total
            pay == (ctx.hourly_rate * ctx.hours) * ctx.waiters
        IN  /\ shown - calc_staff_total(e, caterer) \in {-1, 0, 1}
            /\ pay % 100 # 50 => shown = calc_staff_total(e, caterer)

\* C29: for every persisted estimate, the sum over meal_sections of the
\* sections' adult totals (the meal_total_amount shown by print_estimate)
\* equals calc_food_price_per_person() x guest_count exactly, including
\* when manual per-meal overrides are present.
C29_MealTotalIsFoodPriceTimesGuests ==
    (printed.view = "print_estimate" /\ printed.status = "ok") =>
        LET e == estimates[printed.estimate]
            fcs == FoodChoicesOf(printed.estimate)
        IN  /\ printed.meal_total_amount
                  = calc_food_price_per_person(e, fcs) * e.guest_count
            /\ meal_total_amount(meal_sections(e, fcs))
                  = calc_food_price_per_person(e, fcs) * e.guest_count

\* the document of an estimate for 3 guests with Dinner priced from an item
\* at 30.00 and Lunch overridden to "12.345" over items at 1.2625:
\* 3 x (30.00 + 12.34) = 127.02
C29_Witness ==
    LET e == estimates[1]
    IN  /\ printed.view = "print_estimate"
        /\ printed.status = "ok"
        /\ printed.estimate = 1
        /\ e.guest_count = 3
        /\ e.manual_meal_totals = Override(Lunch, <<"1", "2", ".", "3", "4", "5">>)
        /\ calc_food_price_per_person(e, FoodChoicesOf(1)) = 4234
        /\ printed.meal_total_amount = 12702

\* C30: after recalc_totals on an estimate whose inputs are all non-negative
\* and whose deposit_percentage lies in [0, 100], 0 <= deposit_amount <=
\* grand_total and 0 <= balance_due <= grand_total; deposit_amount is 0 at
\* 0% and equals grand_total at 100%.
C30_DepositAndBalanceWithinTotal ==
    \A id \in EstimateIds :
        LET e == estimates[id]
        IN  (Saved(id) /\ e.deposit_percentage \in 0..10000) =>
              /\ 0 <= e.deposit_amount /\ e.deposit_amount <= e.grand_total
              /\ 0 <= e.balance_due /\ e.balance_due <= e.grand_total
              /\ e.deposit_percentage = 0 => e.deposit_amount = 0
              /\ e.deposit_percentage = 10000 => e.deposit_amount = e.grand_total

\* a recalculated estimate at 100% whose grand total is not zero: the
\* deposit is the whole total and nothing is left due
C30_Witness ==
    /\ Saved(1)
    /\ estimates[1].deposit_percentage = 10000
    /\ estimates[1].grand_total > 0
    /\ estimates[1].deposit_amount = estimates[1].grand_total
    /\ estimates[1].balance_due = 0

====
